---- MODULE Spec2Model ----
(***************************************************************************)
(* A model of src/src/index.ts: the lazily started ShellPromise, the       *)
(* handlers createPromise registers on the child process, and the promise  *)
(* they settle.                                                            *)
(*                                                                         *)
(* One invocation is a record (a ShellPromise together with the closure of *)
(* its createPromise call and what it has written to the parent's          *)
(* streams).  Every method and handler of the source is an operator from   *)
(* such a record to the record after the call; the actions apply them.     *)
(* Four invocations receive the same calls and the same child events:      *)
(* sp, on which every call is made at any time; spQuiet, on which quiet()  *)
(* was called first; spNothrow, on which nothrow() was called first and no *)
(* nothrow() or throws() is made afterwards; spNoTimeout, on which         *)
(* timeout() is never called.                                              *)
(***************************************************************************)
EXTENDS Integers, Sequences, FiniteSets

VARIABLES run, child

vars == <<run, child>>

(***************************************************************************)
(* Bounds of the model.                                                    *)
(***************************************************************************)
\* chunks the child writes, stdout and stderr together
MaxChunks == 2
\* 'error' events the child emits
MaxErrors == 1
\* calls of stdin.write
MaxWrites == 2
\* chunks two concurrent children write, both together
MaxPairChunks == 2
\* bytes the child's stdout pipe holds before a write to it blocks
PipeCapacity == 2
\* bytes the child writes to the stdout that lines() reads
MaxStreamBytes == 4
\* calls of env() on one invocation
MaxEnvCalls == 3
\* literal fragments of one template
MaxFragments == 3

(***************************************************************************)
(* Optional values (T | undefined, number | null).                         *)
(***************************************************************************)
None == <<>>
Some(x) == <<x>>

(***************************************************************************)
(* Bytes, buffers and text.  A Buffer is a sequence of bytes, a string a   *)
(* sequence of characters.                                                 *)
(***************************************************************************)
\* the chunks a data event may carry: "h\n", "h", and a byte that is not UTF-8
Chunks == {<<104, 10>>, <<255>>}

\* Buffer.concat(list)
RECURSIVE BufferConcat(_)
BufferConcat(list) ==
    IF list = <<>> THEN <<>> ELSE Head(list) \o BufferConcat(Tail(list))

\* UTF-8 decoding of one byte of the alphabet; an invalid byte, and a byte of
\* a longer sequence met on its own, decodes to U+FFFD
DecodeByte(b) ==
    CASE b = 104 -> "h"
      [] b = 10  -> "\n"
      [] b = 97  -> "a"
      [] b = 98  -> "b"
      [] b = 49  -> "1"
      [] OTHER   -> "U+FFFD"

\* Buffer.prototype.toString(): UTF-8, where the bytes 195 169 together are
\* the one character U+00E9
RECURSIVE BufferToString(_)
BufferToString(buf) ==
    IF buf = <<>> THEN <<>>
    ELSE IF Len(buf) >= 2 /\ buf[1] = 195 /\ buf[2] = 169
         THEN <<"U+00E9">> \o BufferToString(SubSeq(buf, 3, Len(buf)))
         ELSE <<DecodeByte(buf[1])>> \o BufferToString(Tail(buf))

\* String.prototype.split(sep): the segments between the separators, the
\* empty ones included
RECURSIVE Split(_, _)
Split(text, sep) ==
    IF \A i \in 1..Len(text) : text[i] # sep
    THEN <<text>>
    ELSE LET i == CHOOSE i \in 1..Len(text) :
                     text[i] = sep /\ \A j \in 1..(i - 1) : text[j] # sep
         IN  <<SubSeq(text, 1, i - 1)>> \o Split(SubSeq(text, i + 1, Len(text)), sep)

(***************************************************************************)
(* lineGenerator of the streaming lines(): the fragment held back in       *)
(* buffer, the lines yielded so far, and whether the generator returned.   *)
(***************************************************************************)
NewLineGenerator == [buffer |-> <<>>, yielded |-> <<>>, done |-> FALSE]

\* one turn of for await: buffer += chunk.toString(); the segments of
\* buffer.split('\n') but the last are yielded, the last one is held back
lineGenerator_chunk(g, chunk) ==
    LET lines == Split(g.buffer \o BufferToString(chunk), "\n")
    IN  [g EXCEPT !.buffer = lines[Len(lines)],
                  !.yielded = @ \o SubSeq(lines, 1, Len(lines) - 1)]

\* after the loop: if (buffer.length > 0) yield buffer
lineGenerator_end(g) ==
    [g EXCEPT !.done = TRUE,
              !.yielded = IF Len(g.buffer) > 0 THEN Append(@, g.buffer) ELSE @]

\* JSON.parse(text) on the texts of the alphabet: white space around one
\* number; anything else, the empty text included, throws a SyntaxError
JSONWhiteSpace == {" ", "\n"}

RECURSIVE TrimStart(_)
TrimStart(text) ==
    IF text # <<>> /\ Head(text) \in JSONWhiteSpace THEN TrimStart(Tail(text)) ELSE text

RECURSIVE TrimEnd(_)
TrimEnd(text) ==
    IF text # <<>> /\ text[Len(text)] \in JSONWhiteSpace
    THEN TrimEnd(SubSeq(text, 1, Len(text) - 1))
    ELSE text

SyntaxError == [name |-> "SyntaxError", message |-> <<>>]

JSONParse(text) ==
    LET token == TrimEnd(TrimStart(text))
    IN  IF token # <<>> /\ \A i \in 1..Len(token) : token[i] = "1"
        THEN [threw |-> FALSE, value |-> [type |-> "number", digits |-> token]]
        ELSE [threw |-> TRUE, value |-> SyntaxError]

DigitChar(d) ==
    CASE d = 0 -> "0" [] d = 1 -> "1" [] d = 2 -> "2" [] d = 3 -> "3"
      [] d = 4 -> "4" [] d = 5 -> "5" [] d = 6 -> "6" [] d = 7 -> "7"
      [] d = 8 -> "8" [] OTHER -> "9"

RECURSIVE Digits(_)
Digits(n) ==
    IF n < 10 THEN <<DigitChar(n)>> ELSE Digits(n \div 10) \o <<DigitChar(n % 10)>>

\* `${exitCode}`
NumberToString(n) == IF n < 0 THEN <<"-">> \o Digits(0 - n) ELSE Digits(n)

\* `Command failed with code ${exitCode}`
CommandFailed(exitCode) ==
    <<"C","o","m","m","a","n","d"," ","f","a","i","l","e","d"," ",
      "w","i","t","h"," ","c","o","d","e"," ">> \o NumberToString(exitCode)

Disconnected == <<"D","i","s","c","o","n","n","e","c","t","e","d">>

\* new Error(message)
NewError(message) == [name |-> "Error", message |-> message]

(***************************************************************************)
(* ShellOutput                                                             *)
(***************************************************************************)
NoOutput == [kind |-> "none"]

ShellOutput(stdout, stderr, exitCode, input, success) ==
    [kind |-> "ShellOutput", stdout |-> stdout, stderr |-> stderr,
     exitCode |-> exitCode, input |-> input, success |-> success]

\* get stdin() of ShellOutput: the input, or a throw when there is none
StdinNotAvailable ==
    <<"s","t","d","i","n"," ","i","s"," ","n","o","t"," ",
      "a","v","a","i","l","a","b","l","e">>

ShellOutput_stdin(out) ==
    IF out.input = None
    THEN [threw |-> TRUE, value |-> NewError(StdinNotAvailable)]
    ELSE [threw |-> FALSE, value |-> out.input[1]]

\* ShellOutput.text(): this.stdout.toString()
ShellOutput_text(out) == BufferToString(out.stdout)

\* ShellOutput.json(): JSON.parse(this.stdout.toString())
ShellOutput_json(out) == JSONParse(BufferToString(out.stdout))

(***************************************************************************)
(* Promise<ShellOutput>: resolve and reject settle a pending promise and   *)
(* are ignored by a settled one; calls counts the calls made.              *)
(***************************************************************************)
PendingPromise ==
    [status |-> "pending", value |-> NoOutput, reason |-> NoOutput, calls |-> 0]

resolve(r, final) ==
    [r EXCEPT !.promise =
        IF @.status = "pending"
        THEN [@ EXCEPT !.status = "fulfilled", !.value = final, !.calls = @ + 1]
        ELSE [@ EXCEPT !.calls = @ + 1]]

reject(r, err) ==
    [r EXCEPT !.promise =
        IF @.status = "pending"
        THEN [@ EXCEPT !.status = "rejected", !.reason = err, !.calls = @ + 1]
        ELSE [@ EXCEPT !.calls = @ + 1]]

(***************************************************************************)
(* Objects used as maps from names to values (process.env, the overlay).   *)
(***************************************************************************)
EmptyObject == [k \in {} |-> k]

\* { ...a, ...b }
ObjectSpread(a, b) ==
    [k \in DOMAIN a \cup DOMAIN b |-> IF k \in DOMAIN b THEN b[k] ELSE a[k]]

\* process.env as the parent process got it
InheritedEnv == [PATH |-> "/usr/bin", hello |-> "there"]

(***************************************************************************)
(* ShellPromise.  processEnv is process.env as the code of this invocation *)
(* finds and leaves it; env is the const env of the createPromise closure. *)
(***************************************************************************)
FromCommand ==
    [state     |-> [shell |-> None, cwd |-> None, env |-> None, timeout |-> None,
                    quiet |-> FALSE, nothrow |-> FALSE, closed |-> FALSE,
                    childStdin |-> None],
     promiseRef |-> None,
     spawns    |-> 0,
     stdout    |-> <<>>,
     stderr    |-> <<>>,
     final     |-> NoOutput,
     promise   |-> PendingPromise,
     handles   |-> {},
     parentStdout |-> <<>>,
     parentStderr |-> <<>>,
     env       |-> None,
     processEnv |-> InheritedEnv,
     reactions |-> <<>>,
     jobs      |-> 0,
     ran       |-> <<>>,
     parent    |-> "running"]

\* process.stdout.write(data)
WriteStdout(r, data) == [r EXCEPT !.parentStdout = Append(@, data)]

\* process.stderr.write(data)
WriteStderr(r, data) ==
    [r EXCEPT !.parentStderr = Append(@, [via |-> "write", data |-> data])]

\* console.error(err)
ConsoleError(r, err) ==
    [r EXCEPT !.parentStderr = Append(@, [via |-> "console.error", data |-> err])]

(***************************************************************************)
(* createPromise: the executor spawns the child and registers the          *)
(* handlers; the closure starts with empty stdout and stderr lists.        *)
(***************************************************************************)
\* const env = { ...process.env, ...state.env }
envOf(r) ==
    ObjectSpread(r.processEnv, IF r.state.env = None THEN EmptyObject ELSE r.state.env[1])

\* Object.assign(process.env, state.env) in place of the spread
createPromise_assignsProcessEnv(r) ==
    [r EXCEPT !.spawns = @ + 1,
              !.stdout = <<>>,
              !.stderr = <<>>,
              !.env = Some(envOf(r)),
              !.processEnv = envOf(r),
              !.final = NoOutput,
              !.promise = PendingPromise,
              !.state.childStdin = Some(r.spawns + 1)]

createPromise(r) ==
    [r EXCEPT !.spawns = @ + 1,
              !.stdout = <<>>,
              !.stderr = <<>>,
              !.env = Some(envOf(r)),
              !.final = NoOutput,
              !.promise = PendingPromise,
              !.state.childStdin = Some(r.spawns + 1)]

\* the getter without the assignment to #promise
promise_noMemo(r) == [createPromise(r) EXCEPT !.promiseRef = Some(r.spawns + 1)]

\* get promise()
promise(r) ==
    IF r.promiseRef = None
    THEN [createPromise(r) EXCEPT !.promiseRef = Some(r.spawns + 1)]
    ELSE r

\* what this.promise evaluates to
PromiseOf(r) == promise(r).promiseRef[1]

\* this.promise.then(...), .catch(...), .finally(...) and the accessors built on
\* this.promise.then: the caller holds, through a call of this kind, the promise
\* the getter returned
UsePromise(r, kind) == [promise(r) EXCEPT !.handles = @ \cup {<<kind, PromiseOf(r)>>}]

\* the getter testing childStdin before it starts the process
stdin_testsFirst(r) ==
    LET q == IF r.promiseRef = None THEN promise(r) ELSE r
    IN  IF r.state.childStdin = None
        THEN q
        ELSE [q EXCEPT !.handles = @ \cup {<<"stdin", q.state.childStdin[1]>>}]

\* get stdin()
stdin(r) ==
    LET q == IF r.promiseRef = None THEN promise(r) ELSE r
    IN  IF q.state.childStdin = None
        THEN q
        ELSE [q EXCEPT !.handles = @ \cup {<<"stdin", q.state.childStdin[1]>>}]

then(r) == UsePromise(r, "await")
catch(r) == UsePromise(r, "await")
finally(r) == UsePromise(r, "await")
text(r) == UsePromise(r, "accessor")
lines(r) == UsePromise(r, "accessor")
json(r) == UsePromise(r, "accessor")
toString(r) == UsePromise(r, "accessor")
arrayBuffer(r) == UsePromise(r, "accessor")
blob(r) == UsePromise(r, "accessor")

(***************************************************************************)
(* The callbacks a caller hands to then, catch and finally.  Each call     *)
(* registers one reaction on the promise the getter returned: a handler    *)
(* for fulfilment, a handler for rejection, either of which may be absent. *)
(* A handler names the caller's callback and says whether the callback is  *)
(* passed what the promise settled with.  Once the promise is settled the  *)
(* job queue runs the reactions one by one in the order of registration;   *)
(* ran lists the callbacks that were run, with their argument.             *)
(***************************************************************************)
Handler(callback, passes) == Some([callback |-> callback, passes |-> passes])

\* Promise.prototype.then(onfulfilled, onrejected)
PromiseThen(r, method, onfulfilled, onrejected) ==
    [r EXCEPT !.reactions = Append(@, [method |-> method,
                                       onfulfilled |-> onfulfilled,
                                       onrejected |-> onrejected])]

\* then(onfulfilled, onrejected?): this.promise.then(onfulfilled, onrejected)
thenCallbacks(r, withRejected) ==
    PromiseThen(then(r), "then", Handler("onfulfilled", TRUE),
                IF withRejected THEN Handler("onrejected", TRUE) ELSE None)

\* the callback of catch registered for fulfilment
catchCallback_onFulfilment(r) ==
    PromiseThen(catch(r), "catch", Handler("onrejected", TRUE), None)

\* catch(onrejected): this.promise.catch(onrejected), that is
\* then(undefined, onrejected)
catchCallback(r) ==
    PromiseThen(catch(r), "catch", None, Handler("onrejected", TRUE))

\* the callback of finally registered for fulfilment only
finallyCallback_onFulfilmentOnly(r) ==
    PromiseThen(finally(r), "finally", Handler("onfinally", FALSE), None)

\* finally(onfinally): this.promise.finally(onfinally); onfinally is called
\* without an argument whichever way the promise settled
finallyCallback(r) ==
    PromiseThen(finally(r), "finally", Handler("onfinally", FALSE),
                Handler("onfinally", FALSE))

\* the job of the next reaction, run once the promise is settled
PromiseReactionJob(r) ==
    IF r.promise.status = "pending" \/ r.jobs >= Len(r.reactions)
    THEN r
    ELSE LET i == r.jobs + 1
             handler == IF r.promise.status = "fulfilled"
                        THEN r.reactions[i].onfulfilled
                        ELSE r.reactions[i].onrejected
             settledWith == IF r.promise.status = "fulfilled"
                            THEN r.promise.value
                            ELSE r.promise.reason
         IN  [r EXCEPT !.jobs = i,
                       !.ran = IF handler = None
                               THEN @
                               ELSE Append(@, [reaction |-> i,
                                               method |-> r.reactions[i].method,
                                               callback |-> handler[1].callback,
                                               arg |-> IF handler[1].passes
                                                       THEN Some(settledWith)
                                                       ELSE None])]

\* ShellPromise.text(): this.promise.then((p) => p.stdout.toString())
textResult(r) ==
    IF r.promise.status = "fulfilled"
    THEN [status |-> "fulfilled", value |-> BufferToString(r.promise.value.stdout)]
    ELSE [status |-> r.promise.status, value |-> <<>>]

\* ShellPromise.json(): this.promise.then((p) => p.json()); a throw in the
\* callback rejects the promise then() returned
jsonResult(r) ==
    IF r.promise.status = "fulfilled"
    THEN LET parsed == ShellOutput_json(r.promise.value)
         IN  [status |-> IF parsed.threw THEN "rejected" ELSE "fulfilled",
              value |-> parsed.value]
    ELSE [status |-> r.promise.status, value |-> r.promise.reason]

\* ShellPromise.lines(): the generator awaits the promise, then yields the
\* segments of stdout.toString().split("\n") one by one
linesResult(r) ==
    IF r.promise.status = "fulfilled"
    THEN [status |-> "done",
          yielded |-> Split(BufferToString(r.promise.value.stdout), "\n")]
    ELSE [status |-> IF r.promise.status = "pending" THEN "waiting" ELSE "threw",
          yielded |-> <<>>]

cwd(r, newCwd) == [r EXCEPT !.state.cwd = Some(newCwd)]
timeout(r, t) == [r EXCEPT !.state.timeout = Some(t)]
\* quiet() reading this.promise
quiet_starts(r) == promise([r EXCEPT !.state.quiet = TRUE])

quiet(r) == [r EXCEPT !.state.quiet = TRUE]
nothrow(r) == [r EXCEPT !.state.nothrow = TRUE]
throws(r, shouldThrow) == [r EXCEPT !.state.nothrow = ~shouldThrow]
\* Object.assign(process.env, env) besides the assignment
env_assignsProcessEnv(r, newEnv) ==
    [r EXCEPT !.state.env = Some(newEnv), !.processEnv = ObjectSpread(@, newEnv)]

\* the new overlay spread over the one already set
env_accumulates(r, newEnv) ==
    [r EXCEPT !.state.env =
        Some(ObjectSpread(IF @ = None THEN EmptyObject ELSE @[1], newEnv))]

env(r, newEnv) == [r EXCEPT !.state.env = Some(newEnv)]
shell(r, newShell) == [r EXCEPT !.state.shell = Some(newShell)]

(***************************************************************************)
(* The handlers of createPromise.  An err is a string or an Error object.  *)
(***************************************************************************)
\* a string s is carried as a value with that text and no name
StringErr(s) == [type |-> "string", value |-> [name |-> "", message |-> s]]
ObjectErr(e) == [type |-> "object", value |-> e]

\* child.stdin of the closure's child
ChildStdinOf(r) == Some(r.spawns)

\* onError without the closed guard
onError_noGuard(r, err) ==
    LET final == ShellOutput(BufferConcat(r.stdout), BufferConcat(r.stderr),
                             1, ChildStdinOf(r), FALSE)
        r1 == [r EXCEPT !.state.closed = TRUE, !.final = final]
        r2 == IF ~r1.state.quiet THEN ConsoleError(r1, err) ELSE r1
    IN  IF r2.state.nothrow
        THEN resolve(r2, final)
        ELSE reject(r2, IF err.type = "string" THEN NewError(err.value.message) ELSE err.value)

\* onError rejecting whatever nothrow is
onError_alwaysReject(r, err) ==
    IF r.state.closed THEN r
    ELSE LET final == ShellOutput(BufferConcat(r.stdout), BufferConcat(r.stderr),
                                  1, ChildStdinOf(r), FALSE)
             r1 == [r EXCEPT !.state.closed = TRUE, !.final = final]
             r2 == IF ~r1.state.quiet THEN ConsoleError(r1, err) ELSE r1
         IN  reject(r2, IF err.type = "string" THEN NewError(err.value.message) ELSE err.value)

\* onError echoing the error only when it is about to reject
onError_echoOnReject(r, err) ==
    IF r.state.closed THEN r
    ELSE LET final == ShellOutput(BufferConcat(r.stdout), BufferConcat(r.stderr),
                                  1, ChildStdinOf(r), FALSE)
             r1 == [r EXCEPT !.state.closed = TRUE, !.final = final]
         IN  IF r1.state.nothrow
             THEN resolve(r1, final)
             ELSE reject(IF ~r1.state.quiet THEN ConsoleError(r1, err) ELSE r1,
                         IF err.type = "string" THEN NewError(err.value.message) ELSE err.value)

\* the outcome of onError built with exit code 0
onError_exitZero(r, err) ==
    IF r.state.closed THEN r
    ELSE LET final == ShellOutput(BufferConcat(r.stdout), BufferConcat(r.stderr),
                                  0, ChildStdinOf(r), FALSE)
             r1 == [r EXCEPT !.state.closed = TRUE, !.final = final]
             r2 == IF ~r1.state.quiet THEN ConsoleError(r1, err) ELSE r1
         IN  IF r2.state.nothrow
             THEN resolve(r2, final)
             ELSE reject(r2, IF err.type = "string" THEN NewError(err.value.message)
                                                    ELSE err.value)

onError(r, err) ==
    IF r.state.closed THEN r
    ELSE LET final == ShellOutput(BufferConcat(r.stdout), BufferConcat(r.stderr),
                                  1, ChildStdinOf(r), FALSE)
             r1 == [r EXCEPT !.state.closed = TRUE, !.final = final]
             r2 == IF ~r1.state.quiet THEN ConsoleError(r1, err) ELSE r1
         IN  IF r2.state.nothrow
             THEN resolve(r2, final)
             ELSE reject(r2, IF err.type = "string" THEN NewError(err.value.message)
                                                    ELSE err.value)

\* the data handler returning at once when the invocation is closed
onStdoutData_guardedByClosed(r, data) ==
    IF r.state.closed THEN r
    ELSE LET r1 == [r EXCEPT !.stdout = Append(@, data)]
         IN  IF ~r1.state.quiet THEN WriteStdout(r1, data) ELSE r1

\* a quiet invocation capturing nothing
onStdoutData_captureWhenLoud(r, data) ==
    IF r.state.quiet THEN r
    ELSE WriteStdout([r EXCEPT !.stdout = Append(@, data)], data)

\* the outcome holding the accumulator itself, not a copy of it
onStdoutData_growsOutcome(r, data) ==
    LET r1 == [r EXCEPT !.stdout = Append(@, data)]
        r2 == IF r1.final = NoOutput THEN r1
              ELSE [r1 EXCEPT !.final.stdout = @ \o data]
    IN  IF ~r2.state.quiet THEN WriteStdout(r2, data) ELSE r2

\* each chunk replacing what was captured
onStdoutData_overwrite(r, data) ==
    LET r1 == [r EXCEPT !.stdout = <<data>>]
    IN  IF ~r1.state.quiet THEN WriteStdout(r1, data) ELSE r1

\* the newest chunk put first
onStdoutData_prepend(r, data) ==
    LET r1 == [r EXCEPT !.stdout = <<data>> \o @]
    IN  IF ~r1.state.quiet THEN WriteStdout(r1, data) ELSE r1

onStdoutData(r, data) ==
    LET r1 == [r EXCEPT !.stdout = Append(@, data)]
    IN  IF ~r1.state.quiet THEN WriteStdout(r1, data) ELSE r1

\* An exception no handler catches reaches the event loop: the parent process
\* ends, unless the application listens for 'uncaughtException'.
Uncaught(r, survives) == IF survives THEN r ELSE [r EXCEPT !.parent = "exited"]

\* the stdout 'data' handler when process.stdout.write(data) fails: the chunk
\* is pushed, nothing reaches the parent's stream, and the failure (thrown by
\* the write, or emitted as 'error' by process.stdout) is caught by nothing
onStdoutDataWriteFails(r, data, survives) ==
    LET r1 == [r EXCEPT !.stdout = Append(@, data)]
    IN  IF ~r1.state.quiet THEN Uncaught(r1, survives) ELSE r1

\* an event of the child is handled while the parent process runs
Handled(r, q) == IF r.parent = "exited" THEN r ELSE q

\* stderr chunks forwarded to the parent's stdout
onStderrData_toStdout(r, data) ==
    LET r1 == [r EXCEPT !.stderr = Append(@, data)]
    IN  IF ~r1.state.quiet THEN WriteStdout(r1, data) ELSE r1

onStderrData(r, data) ==
    LET r1 == [r EXCEPT !.stderr = Append(@, data)]
    IN  IF ~r1.state.quiet THEN WriteStderr(r1, data) ELSE r1

\* new ShellOutput(Buffer.concat(stdout), Buffer.concat(stderr), exitCode, ...)
FinalOf(r, exitCode) ==
    ShellOutput(BufferConcat(r.stdout), BufferConcat(r.stderr),
                exitCode, ChildStdinOf(r), exitCode = 0)

StderrOrCode(final) ==
    IF BufferToString(final.stderr) # <<>>
    THEN BufferToString(final.stderr)
    ELSE CommandFailed(final.exitCode)

\* a close handler that settles with final: resolves when clean, or when it
\* honours nothrow and nothrow is set, and rejects with the message otherwise
SettleClose(r, final, clean, honourNothrow, message) ==
    IF r.state.closed THEN r
    ELSE LET r1 == [r EXCEPT !.state.closed = TRUE, !.final = final]
         IN  IF clean \/ (honourNothrow /\ r1.state.nothrow)
             THEN resolve(r1, final)
             ELSE reject(r1, NewError(message))

\* a clean close only when stderr is empty too
onClose_stderrFails(r, code) ==
    LET final == FinalOf(r, IF code = None THEN 1 ELSE code[1])
    IN  SettleClose(r, final, final.exitCode = 0 /\ final.stderr = <<>>, TRUE,
                    StderrOrCode(final))

\* every failing close reported as code 1
onClose_code1(r, code) ==
    LET final == FinalOf(r, IF code = None \/ code # Some(0) THEN 1 ELSE 0)
    IN  SettleClose(r, final, final.exitCode = 0, TRUE, StderrOrCode(final))

\* the rejection always carrying the synthesized message
onClose_genericMessage(r, code) ==
    LET final == FinalOf(r, IF code = None THEN 1 ELSE code[1])
    IN  SettleClose(r, final, final.exitCode = 0, TRUE, CommandFailed(final.exitCode))

\* a failing close rejecting whatever nothrow is
onClose_ignoreNothrow(r, code) ==
    LET final == FinalOf(r, IF code = None THEN 1 ELSE code[1])
    IN  SettleClose(r, final, final.exitCode = 0, FALSE, StderrOrCode(final))

\* code ?? 0 in place of code ?? 1
onClose_nullIsZero(r, code) ==
    LET final == FinalOf(r, IF code = None THEN 0 ELSE code[1])
    IN  SettleClose(r, final, final.exitCode = 0, TRUE, StderrOrCode(final))

\* the nothrow branch of a failing close left out
onClose_nothrowUnsettled(r, code) ==
    IF r.state.closed THEN r
    ELSE LET final == FinalOf(r, IF code = None THEN 1 ELSE code[1])
             r1 == [r EXCEPT !.state.closed = TRUE, !.final = final]
         IN  IF final.exitCode = 0 THEN resolve(r1, final)
             ELSE IF r1.state.nothrow THEN r1
                  ELSE reject(r1, NewError(StderrOrCode(final)))

\* the closed guard inverted
onClose_guardInverted(r, code) ==
    IF ~r.state.closed THEN r
    ELSE LET final == FinalOf(r, IF code = None THEN 1 ELSE code[1])
         IN  SettleClose([r EXCEPT !.state.closed = FALSE], final,
                         final.exitCode = 0, TRUE, StderrOrCode(final))

\* a configured timeout taken for a timeout that fired
onClose_timeoutFails(r, code) ==
    LET armed == r.state.timeout # None /\ r.state.timeout[1] > 0
        final == FinalOf(r, IF code = None \/ armed THEN 1 ELSE code[1])
    IN  SettleClose(r, final, final.exitCode = 0, TRUE, StderrOrCode(final))

\* the outcome of a close built without the stderr chunks
onClose_stdoutOnly(r, code) ==
    IF r.state.closed THEN r
    ELSE LET exitCode == IF code = None THEN 1 ELSE code[1]
             final == ShellOutput(BufferConcat(r.stdout), <<>>,
                                  exitCode, ChildStdinOf(r), exitCode = 0)
             r1 == [r EXCEPT !.state.closed = TRUE, !.final = final]
         IN  IF exitCode = 0 \/ r1.state.nothrow
             THEN resolve(r1, final)
             ELSE reject(r1, NewError(StderrOrCode(final)))

\* the close handler settling without setting the closed flag
onClose_flagUnset(r, code) ==
    IF r.state.closed THEN r
    ELSE LET final == FinalOf(r, IF code = None THEN 1 ELSE code[1])
             r1 == [r EXCEPT !.final = final]
         IN  IF final.exitCode = 0 \/ r1.state.nothrow
             THEN resolve(r1, final)
             ELSE reject(r1, NewError(StderrOrCode(final)))

onClose(r, code) ==
    IF r.state.closed THEN r
    ELSE LET exitCode == IF code = None THEN 1 ELSE code[1]
             final == ShellOutput(BufferConcat(r.stdout), BufferConcat(r.stderr),
                                  exitCode, ChildStdinOf(r), exitCode = 0)
             r1 == [r EXCEPT !.state.closed = TRUE, !.final = final]
         IN  IF exitCode = 0
             THEN resolve(r1, final)
             ELSE IF r1.state.nothrow
                  THEN resolve(r1, final)
                  ELSE reject(r1, NewError(
                           IF BufferToString(final.stderr) # <<>>
                           THEN BufferToString(final.stderr)
                           ELSE CommandFailed(exitCode)))

onDisconnect(r) == onError(r, StringErr(Disconnected))

(***************************************************************************)
(* The child process, as node:child_process drives it.  spawn reads the    *)
(* options once; a positive timeout arms a timer that kills the child      *)
(* while it runs, and a killed child closes with a null code.  The three   *)
(* stdio entries are pipes: stdinPipe holds the bytes the caller wrote and *)
(* the child has not read, stdoutPipe the bytes the child wrote and no     *)
(* 'data' event has delivered, written the payloads of the write calls.    *)
(***************************************************************************)
NoChild ==
    [phase |-> "none", code |-> None, timer |-> FALSE, timedOut |-> FALSE,
     wroteOut |-> <<>>, wroteErr |-> <<>>, errors |-> 0, disconnected |-> FALSE,
     stdinPipe |-> <<>>, stdinEnded |-> FALSE, written |-> <<>>,
     stdoutPipe |-> <<>>, stderrPipe |-> <<>>, writes |-> 0,
     env |-> EmptyObject]

\* childProcess.spawn(command, {cwd, env, shell, timeout, stdio})
spawn(state, options_env) ==
    [NoChild EXCEPT !.phase = "running",
                    !.env = options_env,
                    !.timer = (state.timeout # None /\ state.timeout[1] > 0)]

\* the values the callers pass to the setters
CwdArgs == {"src"}
ShellArgs == {"/bin/bash"}
EnvArgs == {[hello |-> "world"], [GREETING |-> "Hello"]}
TimeoutArgs == {0, 1}

\* the codes a child exits with on its own
ExitCodes == {0, 1, 127}

\* the Error objects an 'error' event carries: a failed spawn, a failed kill
SpawnENOENT == NewError(<<"s","p","a","w","n"," ","E","N","O","E","N","T">>)
KillEPERM == NewError(<<"k","i","l","l"," ","E","P","E","R","M">>)
ErrorObjects == {SpawnENOENT, KillEPERM}

\* the errno a failed spawn closes with
ENOENT == -2

\* the callbacks one caller registers on an invocation
MaxReactions == 2

(***************************************************************************)
(* State: the invocations and the child they watch.                        *)
(***************************************************************************)
Runs == {"sp", "spQuiet", "spNothrow", "spNoTimeout"}

sp == run["sp"]
spQuiet == run["spQuiet"]
spNothrow == run["spNothrow"]
spNoTimeout == run["spNoTimeout"]

Init ==
    /\ run = [k \in Runs |-> CASE k = "sp" -> FromCommand
                               [] k = "spQuiet" -> quiet(FromCommand)
                               [] k = "spNothrow" -> nothrow(FromCommand)
                               [] k = "spNoTimeout" -> FromCommand]
    /\ child = NoChild

\* the child after a call that took sp to q: spawned if the call started it
ChildAfter(q) == IF q.spawns > sp.spawns THEN spawn(sp.state, q.env[1]) ELSE child

Then == run' = [k \in Runs |-> then(run[k])] /\ child' = ChildAfter(then(sp))
Catch == run' = [k \in Runs |-> catch(run[k])] /\ child' = ChildAfter(catch(sp))
Finally == run' = [k \in Runs |-> finally(run[k])] /\ child' = ChildAfter(finally(sp))
Text == run' = [k \in Runs |-> text(run[k])] /\ child' = ChildAfter(text(sp))
Lines == run' = [k \in Runs |-> lines(run[k])] /\ child' = ChildAfter(lines(sp))
Json == run' = [k \in Runs |-> json(run[k])] /\ child' = ChildAfter(json(sp))
ToString == run' = [k \in Runs |-> toString(run[k])] /\ child' = ChildAfter(toString(sp))
ArrayBuffer == run' = [k \in Runs |-> arrayBuffer(run[k])] /\ child' = ChildAfter(arrayBuffer(sp))
Blob == run' = [k \in Runs |-> blob(run[k])] /\ child' = ChildAfter(blob(sp))
Stdin == run' = [k \in Runs |-> stdin(run[k])] /\ child' = ChildAfter(stdin(sp))

Cwd == \E v \in CwdArgs : run' = [k \in Runs |-> cwd(run[k], v)] /\ UNCHANGED child
Shell == \E v \in ShellArgs : run' = [k \in Runs |-> shell(run[k], v)] /\ UNCHANGED child
Env == \E v \in EnvArgs : run' = [k \in Runs |-> env(run[k], v)] /\ UNCHANGED child
Quiet == run' = [k \in Runs |-> quiet(run[k])] /\ UNCHANGED child

\* timeout(t) is not called on spNoTimeout
Timeout ==
    \E v \in TimeoutArgs :
       /\ run' = [k \in Runs |-> IF k = "spNoTimeout" THEN run[k] ELSE timeout(run[k], v)]
       /\ UNCHANGED child

\* nothrow() and throws(b) are not called on spNothrow
Nothrow ==
    /\ run' = [k \in Runs |-> IF k = "spNothrow" THEN run[k] ELSE nothrow(run[k])]
    /\ UNCHANGED child

Throws ==
    \E b \in BOOLEAN :
       /\ run' = [k \in Runs |-> IF k = "spNothrow" THEN run[k] ELSE throws(run[k], b)]
       /\ UNCHANGED child

(***************************************************************************)
(* The child's events                                                      *)
(***************************************************************************)
Started == child.phase # "none"

StdoutData ==
    /\ child.phase \in {"running", "exited"}
    /\ Len(child.wroteOut) + Len(child.wroteErr) < MaxChunks
    /\ \E data \in Chunks :
          /\ run' = [k \in Runs |-> onStdoutData(run[k], data)]
          /\ child' = [child EXCEPT !.wroteOut = Append(@, data)]

StderrData ==
    /\ child.phase \in {"running", "exited"}
    /\ Len(child.wroteOut) + Len(child.wroteErr) < MaxChunks
    /\ \E data \in Chunks :
          /\ run' = [k \in Runs |-> onStderrData(run[k], data)]
          /\ child' = [child EXCEPT !.wroteErr = Append(@, data)]

\* the chunks of a child that prints lines and numbers: "a\n", "b", "b\n", "1"
TextChunks == {<<97, 10>>, <<98>>, <<98, 10>>, <<49>>}

StdoutText ==
    /\ child.phase \in {"running", "exited"}
    /\ Len(child.wroteOut) + Len(child.wroteErr) < MaxChunks
    /\ \E data \in TextChunks :
          /\ run' = [k \in Runs |-> onStdoutData(run[k], data)]
          /\ child' = [child EXCEPT !.wroteOut = Append(@, data)]

\* the child exits on its own
Exit ==
    /\ child.phase = "running"
    /\ \E c \in ExitCodes :
          child' = [child EXCEPT !.phase = "exited", !.code = Some(c), !.timer = FALSE]
    /\ UNCHANGED run

\* the timeout elapses while the child runs: it is killed
TimeoutKill ==
    /\ child.phase = "running"
    /\ child.timer
    /\ child' = [child EXCEPT !.phase = "exited", !.code = None, !.timer = FALSE,
                              !.timedOut = TRUE]
    /\ UNCHANGED run

\* 'close', once the child has exited
Close ==
    /\ child.phase = "exited"
    /\ run' = [k \in Runs |-> onClose(run[k], child.code)]
    /\ child' = [child EXCEPT !.phase = "closed"]

\* 'error': a failed spawn ends a child that has done nothing yet
ErrorEvent(e) ==
    /\ Started
    /\ child.errors < MaxErrors
    /\ e = SpawnENOENT =>
          /\ child.phase = "running"
          /\ child.wroteOut = <<>> /\ child.wroteErr = <<>> /\ child.errors = 0
    /\ run' = [k \in Runs |-> onError(run[k], ObjectErr(e))]
    /\ child' = IF e = SpawnENOENT
                THEN [child EXCEPT !.phase = "exited", !.code = Some(ENOENT),
                                   !.timer = FALSE, !.errors = @ + 1]
                ELSE [child EXCEPT !.errors = @ + 1]

Error == \E e \in ErrorObjects : ErrorEvent(e)

\* 'disconnect', emitted once
Disconnect ==
    /\ Started
    /\ ~child.disconnected
    /\ run' = [k \in Runs |-> onDisconnect(run[k])]
    /\ child' = [child EXCEPT !.disconnected = TRUE]

(***************************************************************************)
(* The stdin handle in the caller's hands, and a child that copies its    *)
(* stdin to its stdout (cat).  A write is buffered by the stream and never *)
(* blocks the caller; the child blocks on a full stdout pipe and exits     *)
(* with 0 at the end of its input; 'close' follows the end of the streams. *)
(***************************************************************************)
Payloads == Chunks

\* proc.stdin.write(payload)
Write ==
    /\ <<"stdin", 1>> \in sp.handles
    /\ ~child.stdinEnded
    /\ Len(child.written) < MaxWrites
    /\ \E payload \in Payloads :
          child' = [child EXCEPT !.stdinPipe = @ \o payload,
                                 !.written = Append(@, payload)]
    /\ UNCHANGED run

\* proc.stdin.end()
End ==
    /\ <<"stdin", 1>> \in sp.handles
    /\ ~child.stdinEnded
    /\ child' = [child EXCEPT !.stdinEnded = TRUE]
    /\ UNCHANGED run

\* the child reads some bytes of its stdin and writes them to its stdout
CatCopy ==
    /\ child.phase = "running"
    /\ \E n \in 1..Len(child.stdinPipe) :
          /\ Len(child.stdoutPipe) + n <= PipeCapacity
          /\ child' = [child EXCEPT
                 !.stdoutPipe = @ \o SubSeq(child.stdinPipe, 1, n),
                 !.stdinPipe = SubSeq(@, n + 1, Len(@))]
    /\ UNCHANGED run

\* a 'data' event of child.stdout delivers some of the bytes in the pipe
PipeData ==
    /\ child.phase \in {"running", "exited"}
    /\ \E n \in 1..Len(child.stdoutPipe) :
          LET data == SubSeq(child.stdoutPipe, 1, n)
          IN  /\ run' = [k \in Runs |-> onStdoutData(run[k], data)]
              /\ child' = [child EXCEPT
                     !.stdoutPipe = SubSeq(@, n + 1, Len(@)),
                     !.wroteOut = Append(@, data)]

\* the child has read the end of its input and copied everything
CatExit ==
    /\ child.phase = "running"
    /\ child.stdinEnded /\ child.stdinPipe = <<>>
    /\ child' = [child EXCEPT !.phase = "exited", !.code = Some(0), !.timer = FALSE]
    /\ UNCHANGED run

(***************************************************************************)
(* The invocation used as a thenable: then, catch and finally with the     *)
(* caller's callbacks, the child running to its end, and the job queue     *)
(* running the reactions of the settled promise.  The job queue is never   *)
(* left with a job it does not run.                                        *)
(***************************************************************************)
ThenCallbacks ==
    /\ Len(sp.reactions) < MaxReactions
    /\ \E withRejected \in BOOLEAN :
           run' = [k \in Runs |-> thenCallbacks(run[k], withRejected)]
    /\ child' = ChildAfter(then(sp))

CatchCallback ==
    /\ Len(sp.reactions) < MaxReactions
    /\ run' = [k \in Runs |-> catchCallback(run[k])]
    /\ child' = ChildAfter(catch(sp))

FinallyCallback ==
    /\ Len(sp.reactions) < MaxReactions
    /\ run' = [k \in Runs |-> finallyCallback(run[k])]
    /\ child' = ChildAfter(finally(sp))

RunReaction ==
    /\ \E k \in Runs : PromiseReactionJob(run[k]) # run[k]
    /\ run' = [k \in Runs |-> PromiseReactionJob(run[k])]
    /\ UNCHANGED child

(***************************************************************************)
(* Forwarding that can fail: a started invocation whose child writes,      *)
(* exits and closes, the write to the parent's stdout failing or not.      *)
(***************************************************************************)
ForwardData ==
    /\ child.phase \in {"running", "exited"}
    /\ Len(child.wroteOut) < MaxChunks
    /\ \E data \in Chunks :
          /\ run' = [k \in Runs |-> Handled(run[k], onStdoutData(run[k], data))]
          /\ child' = [child EXCEPT !.wroteOut = Append(@, data)]

ForwardFails ==
    /\ child.phase \in {"running", "exited"}
    /\ Len(child.wroteOut) < MaxChunks
    /\ \E data \in Chunks, survives \in BOOLEAN :
          /\ run' = [k \in Runs |->
                        Handled(run[k], onStdoutDataWriteFails(run[k], data, survives))]
          /\ child' = [child EXCEPT !.wroteOut = Append(@, data)]

ForwardClose ==
    /\ child.phase = "exited"
    /\ run' = [k \in Runs |-> Handled(run[k], onClose(run[k], child.code))]
    /\ child' = [child EXCEPT !.phase = "closed"]

(***************************************************************************)
(* The streaming lines(): run is the generator, child the bytes its stdout *)
(* carries, how many of them the stream has delivered, and whether the     *)
(* stream has ended.  A chunk is any number of the bytes not yet           *)
(* delivered; the stream ends once all of them are.                        *)
(***************************************************************************)
\* "a", "\n" and the two bytes of U+00E9
StreamBytes == {97, 10, 195, 169}

InitStream ==
    /\ run = NewLineGenerator
    /\ \E n \in 0..MaxStreamBytes : \E bytes \in [1..n -> StreamBytes] :
          child = [stdout |-> bytes, delivered |-> 0, ended |-> FALSE]

StreamChunk ==
    /\ ~child.ended
    /\ \E n \in 1..(Len(child.stdout) - child.delivered) :
          /\ run' = lineGenerator_chunk(run,
                        SubSeq(child.stdout, child.delivered + 1, child.delivered + n))
          /\ child' = [child EXCEPT !.delivered = @ + n]

StreamEnd ==
    /\ ~child.ended
    /\ child.delivered = Len(child.stdout)
    /\ run' = lineGenerator_end(run)
    /\ child' = [child EXCEPT !.ended = TRUE]

NextStream == StreamChunk \/ StreamEnd

SpecStream == InitStream /\ [][NextStream]_vars

(***************************************************************************)
(* A child whose writes and the 'data' events that deliver them are apart: *)
(* a write puts a chunk in the pipe of stdout or of stderr, a 'data' event *)
(* delivers some of the bytes a pipe holds, and 'close' comes once the     *)
(* child has exited and both pipes have been read to their end.            *)
(***************************************************************************)
ChildWrite ==
    /\ child.phase = "running"
    /\ child.writes < MaxChunks
    /\ \E data \in Chunks :
          \/ child' = [child EXCEPT !.stdoutPipe = @ \o data, !.writes = @ + 1]
          \/ child' = [child EXCEPT !.stderrPipe = @ \o data, !.writes = @ + 1]
    /\ UNCHANGED run

\* a 'data' event of child.stderr delivers some of the bytes in the pipe
StderrPipeData ==
    /\ child.phase \in {"running", "exited"}
    /\ \E n \in 1..Len(child.stderrPipe) :
          LET data == SubSeq(child.stderrPipe, 1, n)
          IN  /\ run' = [k \in Runs |-> onStderrData(run[k], data)]
              /\ child' = [child EXCEPT
                     !.stderrPipe = SubSeq(@, n + 1, Len(@)),
                     !.wroteErr = Append(@, data)]

(***************************************************************************)
(* One invocation configured by successive env() calls: run is the         *)
(* invocation, the arguments of its env() calls in the order of the calls, *)
(* and how many of them were made before the start; child is its child.    *)
(***************************************************************************)
\* the overlays of the callers, and one that sets PATH and GREETING anew
Overlays == EnvArgs \cup {[PATH |-> "/opt/bin", GREETING |-> "Hi"]}

InitEnv ==
    /\ run = [inv |-> FromCommand, calls |-> <<>>, before |-> None]
    /\ child = NoChild

EnvCall ==
    /\ Len(run.calls) < MaxEnvCalls
    /\ \E v \in Overlays :
          run' = [run EXCEPT !.inv = env(@, v), !.calls = Append(@, v)]
    /\ UNCHANGED child

\* the first await: the process starts
EnvStart ==
    /\ run.inv.promiseRef = None
    /\ run' = [run EXCEPT !.inv = then(@), !.before = Some(Len(run.calls))]
    /\ child' = spawn(run.inv.state, then(run.inv).env[1])

NextEnv == EnvCall \/ EnvStart

SpecEnv == InitEnv /\ [][NextEnv]_vars

(***************************************************************************)
(* The older variant of run(command), which settles on the 'close' events  *)
(* of the child's stdout and stderr streams.  One result object is filled  *)
(* as the events come and is what the promise resolves with, so that the   *)
(* value of the promise is the result as it is when it is read.            *)
(***************************************************************************)
OlderRun ==
    [state   |-> [quiet |-> FALSE, nothrow |-> FALSE, closed |-> FALSE],
     result  |-> [success |-> TRUE, stdout |-> <<>>, stderr |-> <<>>],
     promise |-> [status |-> "pending", reason |-> NoOutput, calls |-> 0],
     parentStdout |-> <<>>,
     parentStderr |-> <<>>,
     parent  |-> "running"]

OlderResolve(r) ==
    [r EXCEPT !.promise =
        IF @.status = "pending"
        THEN [@ EXCEPT !.status = "fulfilled", !.calls = @ + 1]
        ELSE [@ EXCEPT !.calls = @ + 1]]

OlderReject(r, err) ==
    [r EXCEPT !.promise =
        IF @.status = "pending"
        THEN [@ EXCEPT !.status = "rejected", !.reason = err, !.calls = @ + 1]
        ELSE [@ EXCEPT !.calls = @ + 1]]

\* err.toString()
ErrorToString(e) == <<"E","r","r","o","r",":"," ">> \o e.message

\* child.stdout.on('data')
OlderStdoutData(r, data) ==
    LET str == BufferToString(data)
        r1 == [r EXCEPT !.result.stdout = @ \o str]
    IN  IF ~r1.state.quiet THEN [r1 EXCEPT !.parentStdout = Append(@, str)] ELSE r1

\* child.stderr.on('data')
OlderStderrData(r, data) ==
    LET str == BufferToString(data)
        r1 == [r EXCEPT !.result.stderr = @ \o str]
    IN  IF ~r1.state.quiet THEN [r1 EXCEPT !.parentStderr = Append(@, str)] ELSE r1

\* child.on('error'): the throw of the handler is caught by nothing
OlderError(r, err, survives) ==
    LET str == ErrorToString(err)
        r1 == [r EXCEPT !.parentStdout =
                            Append(@, <<"C","H","I","L","D"," ","E","R","R","O","R",":"," ">> \o str),
                        !.result.stderr = @ \o str,
                        !.result.success = FALSE]
        r2 == IF ~r1.state.quiet THEN [r1 EXCEPT !.parentStderr = Append(@, str)] ELSE r1
    IN  IF r2.state.nothrow THEN OlderResolve(r2) ELSE Uncaught(r2, survives)

\* child.stdout.on('close')
OlderStdoutClose(r, exitCode) ==
    IF r.state.closed THEN r
    ELSE LET r1 == [r EXCEPT !.state.closed = TRUE]
         IN  IF exitCode = Some(0)
             THEN OlderResolve(r1)
             ELSE LET r2 == [r1 EXCEPT !.result.success = FALSE]
                  IN  IF r2.state.nothrow
                      THEN OlderResolve(r2)
                      ELSE OlderReject(r2, NewError(r2.result.stderr))

\* the close of stderr taken for a failure when nothing was written to it
OlderStderrClose_emptyFails(r, exitCode) ==
    IF r.state.closed THEN r
    ELSE LET r1 == [r EXCEPT !.state.closed = TRUE]
         IN  IF exitCode = Some(0) /\ r1.result.stderr # <<>>
             THEN OlderResolve(r1)
             ELSE LET r2 == [r1 EXCEPT !.result.success = FALSE]
                  IN  IF r2.state.nothrow
                      THEN OlderResolve(r2)
                      ELSE OlderReject(r2, NewError(r2.result.stderr))

\* child.stderr.on('close')
OlderStderrClose(r, exitCode) ==
    IF r.state.closed THEN r
    ELSE LET r1 == [r EXCEPT !.state.closed = TRUE]
         IN  IF exitCode = Some(0) \/ r1.result.stderr = <<>>
             THEN OlderResolve(r1)
             ELSE LET r2 == [r1 EXCEPT !.result.success = FALSE]
                  IN  IF r2.state.nothrow
                      THEN OlderResolve(r2)
                      ELSE OlderReject(r2, NewError(r2.result.stderr))

\* the child of childProcess.exec(command): its exit code, null until it has
\* exited, its two output streams, the chunks and the errors it has emitted
OlderChild ==
    [exitCode |-> None, stdoutOpen |-> TRUE, stderrOpen |-> TRUE,
     chunks |-> 0, errors |-> 0]

\* run is the invocation once createPromise has run, child its child
InitOlder == run = OlderRun /\ child = OlderChild

OlderQuiet ==
    /\ run' = [run EXCEPT !.state.quiet = TRUE]
    /\ UNCHANGED child

OlderNothrow ==
    /\ run' = [run EXCEPT !.state.nothrow = TRUE]
    /\ UNCHANGED child

OlderOut ==
    /\ child.stdoutOpen /\ child.chunks < MaxChunks
    /\ \E data \in Chunks : run' = Handled(run, OlderStdoutData(run, data))
    /\ child' = [child EXCEPT !.chunks = @ + 1]

OlderErr ==
    /\ child.stderrOpen /\ child.chunks < MaxChunks
    /\ \E data \in Chunks : run' = Handled(run, OlderStderrData(run, data))
    /\ child' = [child EXCEPT !.chunks = @ + 1]

OlderExit ==
    /\ child.exitCode = None
    /\ \E c \in ExitCodes : child' = [child EXCEPT !.exitCode = Some(c)]
    /\ UNCHANGED run

OlderCloseOut ==
    /\ child.stdoutOpen
    /\ run' = Handled(run, OlderStdoutClose(run, child.exitCode))
    /\ child' = [child EXCEPT !.stdoutOpen = FALSE]

OlderCloseErr ==
    /\ child.stderrOpen
    /\ run' = Handled(run, OlderStderrClose(run, child.exitCode))
    /\ child' = [child EXCEPT !.stderrOpen = FALSE]

OlderErrorEvent ==
    /\ child.errors < MaxErrors
    /\ \E e \in ErrorObjects, survives \in BOOLEAN :
          run' = Handled(run, OlderError(run, e, survives))
    /\ child' = [child EXCEPT !.errors = @ + 1]

NextOlder ==
    \/ OlderQuiet \/ OlderNothrow
    \/ OlderOut \/ OlderErr \/ OlderExit
    \/ OlderCloseOut \/ OlderCloseErr \/ OlderErrorEvent

SpecOlder == InitOlder /\ [][NextOlder]_vars

(***************************************************************************)
(* The tag function $ and run(command).  A template is its literal         *)
(* fragments (strings) and its interpolated values (keys); a value that is *)
(* missing is None.  run holds the template and the invocation made of it, *)
(* child the command spawn was given and the process.                      *)
(***************************************************************************)
\* a missing value concatenated as it is: "undefined"
KeyOr_undefinedText(keys, i) ==
    IF i <= Len(keys) /\ keys[i] # None THEN keys[i][1]
    ELSE <<"u","n","d","e","f","i","n","e","d">>

\* keys[i] ?? ""
KeyOr(keys, i) == IF i <= Len(keys) /\ keys[i] # None THEN keys[i][1] ELSE <<>>

\* strings.reduce((acc, str, i) => acc + str + (keys[i] ?? ""), ""), after n
\* elements
RECURSIVE Reduce(_, _, _)
Reduce(strings, keys, n) ==
    IF n = 0 THEN <<>>
    ELSE Reduce(strings, keys, n - 1) \o strings[n] \o KeyOr(keys, n)

\* new ShellPromise(command, state)
ShellPromiseOf(command) == [command |-> command, inv |-> FromCommand]

\* run(command)
runCommand(command) == ShellPromiseOf(command)

\* $(strings, ...keys)
Dollar(strings, keys) == runCommand(Reduce(strings, keys, Len(strings)))

\* the fragments and the values of the templates
Fragments == {<<>>, <<"l", "s">>, <<" ">>}
Values == {None, Some(<<"a">>), Some(<<";", " ">>)}

InitCommand ==
    /\ \E n \in 1..MaxFragments : \E strings \in [1..n -> Fragments] :
          \E m \in 0..(n - 1) : \E keys \in [1..m -> Values] :
              run = [strings |-> strings, keys |-> keys, promise |-> None]
    /\ child = [command |-> None, process |-> NoChild]

CallDollar ==
    /\ run.promise = None
    /\ run' = [run EXCEPT !.promise = Some(Dollar(run.strings, run.keys))]
    /\ UNCHANGED child

\* the first await: createPromise(this.state, this.command) spawns
StartCommand ==
    /\ run.promise # None
    /\ run.promise[1].inv.promiseRef = None
    /\ run' = [run EXCEPT !.promise[1].inv = then(@)]
    /\ child' = [command |-> Some(run.promise[1].command),
                 process |-> spawn(run.promise[1].inv.state,
                                   then(run.promise[1].inv).env[1])]

NextCommand == CallDollar \/ StartCommand

SpecCommand == InitCommand /\ [][NextCommand]_vars

\* 'close', once the child has exited and its stdout has been read to the end
PipeClose == child.stdoutPipe = <<>> /\ child.stderrPipe = <<>> /\ Close

Next ==
    \/ Then \/ Catch \/ Finally \/ Text \/ Lines \/ Json \/ ToString
    \/ ArrayBuffer \/ Blob \/ Stdin
    \/ Cwd \/ Shell \/ Env \/ Timeout \/ Quiet \/ Nothrow \/ Throws
    \/ StdoutData \/ StderrData \/ Exit \/ TimeoutKill \/ Close \/ Error \/ Disconnect
    \/ Write \/ End \/ CatCopy \/ PipeData \/ CatExit \/ PipeClose
    \/ StdoutText
    \/ ThenCallbacks \/ CatchCallback \/ FinallyCallback \/ RunReaction
    \/ ForwardData \/ ForwardFails \/ ForwardClose

Spec == Init /\ [][Next]_vars

(***************************************************************************)
(* Two parts of Next, each small enough to explore in full.  The fields    *)
(* cwd, shell and env are read by no handler, and every entry point starts *)
(* the process through the same getter.                                    *)
(***************************************************************************)

\* the builder and the lazy start: every method, a child that only exits and closes
NextLifecycle ==
    \/ Then \/ Catch \/ Finally \/ Text \/ Lines \/ Json \/ ToString
    \/ ArrayBuffer \/ Blob \/ Stdin
    \/ Cwd \/ Shell \/ Env \/ Timeout \/ Quiet \/ Nothrow \/ Throws
    \/ Exit \/ TimeoutKill \/ Close

SpecLifecycle == Init /\ [][NextLifecycle]_vars

\* one awaited invocation: the flags the handlers read, and every child event
NextRun ==
    \/ Then
    \/ Timeout \/ Quiet \/ Nothrow \/ Throws
    \/ StdoutData \/ StderrData \/ Exit \/ TimeoutKill \/ Close \/ Error \/ Disconnect

SpecRun == Init /\ [][NextRun]_vars

\* the same, with the timeout configured the way the callers do: before the start
TimeoutBeforeStart == ~Started /\ Timeout

NextTimeout ==
    \/ Then
    \/ TimeoutBeforeStart \/ Quiet \/ Nothrow \/ Throws
    \/ StdoutData \/ StderrData \/ Exit \/ TimeoutKill \/ Close \/ Error \/ Disconnect

SpecTimeout == Init /\ [][NextTimeout]_vars

\* the caller writing to the stdin of a pass-through child
NextPipe ==
    \/ Stdin \/ Then \/ Quiet \/ Nothrow
    \/ Write \/ End
    \/ CatCopy \/ PipeData \/ CatExit \/ PipeClose

SpecPipe == Init /\ [][NextPipe]_vars

\* the event loop delivers every pending event and the child is scheduled
PipeFairness ==
    /\ WF_vars(CatCopy) /\ WF_vars(PipeData) /\ WF_vars(CatExit) /\ WF_vars(PipeClose)

SpecPipeFair == SpecPipe /\ PipeFairness

\* the child writing to both streams, the events delivering what it wrote
NextDrain ==
    \/ Then \/ Nothrow
    \/ ChildWrite \/ PipeData \/ StderrPipeData
    \/ Exit \/ PipeClose \/ Error

SpecDrain == Init /\ [][NextDrain]_vars

(***************************************************************************)
(* Two invocations in one process, each with its own child.  Here run      *)
(* holds the objects: heap, the state objects allocated so far; ref, the   *)
(* state object each ShellPromise holds; inv, the rest of each invocation  *)
(* (its closure and promise).  child holds the two children.               *)
(***************************************************************************)
Invocations == {"first", "second"}

\* one state object reused by every ShellPromise
FromCommandIn_sharedState(heap) ==
    IF heap = <<>>
    THEN [heap |-> <<FromCommand.state>>, ref |-> 1]
    ELSE [heap |-> heap, ref |-> 1]

\* new ShellPromise(command, { quiet: false, nothrow: false, closed: false }):
\* the object literal is a new object at each call
FromCommandIn(heap) ==
    [heap |-> Append(heap, FromCommand.state), ref |-> Len(heap) + 1]

InitPair ==
    LET a == FromCommandIn(<<>>)
        b == FromCommandIn(a.heap)
    IN  /\ run = [heap |-> b.heap,
                  ref |-> [k \in Invocations |-> IF k = "first" THEN a.ref ELSE b.ref],
                  inv |-> [k \in Invocations |-> FromCommand]]
        /\ child = [k \in Invocations |-> NoChild]

\* the invocation as its methods and handlers see it: this.state is the
\* object it refers to
View(k) == [run.inv[k] EXCEPT !.state = run.heap[run.ref[k]]]

\* the invocation after a call that left it as q
Stored(k, q) == run' = [run EXCEPT !.heap[run.ref[k]] = q.state, !.inv[k] = q]

AwaitOf(k) ==
    LET q == then(View(k))
    IN  /\ Stored(k, q)
        /\ child' = [child EXCEPT ![k] =
               IF q.spawns > View(k).spawns THEN spawn(View(k).state, q.env[1]) ELSE @]

QuietOf(k) == Stored(k, quiet(View(k))) /\ UNCHANGED child

NothrowOf(k) == Stored(k, nothrow(View(k))) /\ UNCHANGED child

DataOf(k) ==
    /\ child[k].phase \in {"running", "exited"}
    /\ Len(child["first"].wroteOut) + Len(child["second"].wroteOut) < MaxPairChunks
    /\ \E data \in Chunks :
          /\ Stored(k, onStdoutData(View(k), data))
          /\ child' = [child EXCEPT ![k].wroteOut = Append(@, data)]

ExitOf(k) ==
    /\ child[k].phase = "running"
    /\ \E c \in ExitCodes : child' = [child EXCEPT ![k].phase = "exited", ![k].code = Some(c)]
    /\ UNCHANGED run

CloseOf(k) ==
    /\ child[k].phase = "exited"
    /\ Stored(k, onClose(View(k), child[k].code))
    /\ child' = [child EXCEPT ![k].phase = "closed"]

PairAwait == \E k \in Invocations : AwaitOf(k)
PairQuiet == \E k \in Invocations : QuietOf(k)
PairNothrow == \E k \in Invocations : NothrowOf(k)
PairData == \E k \in Invocations : DataOf(k)
PairExit == \E k \in Invocations : ExitOf(k)
PairClose == \E k \in Invocations : CloseOf(k)

NextPair ==
    \/ PairAwait \/ PairQuiet \/ PairNothrow
    \/ PairData \/ PairExit \/ PairClose

SpecPair == InitPair /\ [][NextPair]_vars

\* a started invocation and a child that does deliver its events: a running
\* child exits, an exited child closes
NextSettle ==
    \/ Then \/ Stdin \/ Text
    \/ Quiet \/ Nothrow
    \/ StdoutData \/ Exit \/ Close \/ Error \/ Disconnect

ChildDelivers == WF_vars(Exit) /\ WF_vars(Close)

SpecSettle == Init /\ [][NextSettle]_vars /\ ChildDelivers

NextThenable ==
    \/ ThenCallbacks \/ CatchCallback \/ FinallyCallback
    \/ Exit \/ Close \/ Error
    \/ RunReaction

JobQueueDrains == WF_vars(RunReaction)

SpecThenable == Init /\ [][NextThenable]_vars /\ JobQueueDrains

\* forwarding: the child's output handled by a parent whose stdout may fail
NextForward == Then \/ Nothrow \/ ForwardData \/ ForwardFails \/ Exit \/ ForwardClose

SpecForward == Init /\ [][NextForward]_vars

\* the decoded views: the accessors, and a child that prints text
NextViews ==
    \/ Then \/ Text \/ Lines \/ Json \/ ArrayBuffer \/ Blob
    \/ Quiet \/ Nothrow
    \/ StdoutText \/ Exit \/ Close \/ Error

SpecViews == Init /\ [][NextViews]_vars

(***************************************************************************)
(* Properties                                                              *)
(***************************************************************************)
\* the bytes the child has written so far, as the handlers should have them
WroteOut == BufferConcat(child.wroteOut)
WroteErr == BufferConcat(child.wroteErr)

\* the code a close with this code is taken to report
Effective(code) == IF code = None THEN 1 ELSE code[1]

\* a terminating event handled after the outcome was decided
LateEvent == sp.state.closed /\ (Close \/ Error \/ Disconnect)

\* C1: whatever the order of 'close', 'error' and 'disconnect', resolve or
\* reject is called at most once; an event handled after the first one settles
\* nothing, echoes nothing and leaves the outcome as it was.
C1_SettledOnce ==
    /\ [](sp.promise.calls <= 1)
    /\ [][LateEvent =>
            /\ sp'.promise = sp.promise
            /\ sp'.final = sp.final
            /\ sp'.parentStdout = sp.parentStdout
            /\ sp'.parentStderr = sp.parentStderr]_vars

\* an 'error' won, and a 'disconnect' and a 'close' with code 0 came after it
C1_Witness ==
    /\ sp.promise.calls = 1
    /\ sp.promise.status = "rejected"
    /\ sp.promise.reason = KillEPERM
    /\ child.phase = "closed" /\ child.code = Some(0)
    /\ child.errors = 1 /\ child.disconnected

SetterStep == Cwd \/ Shell \/ Env \/ Timeout \/ Quiet \/ Nothrow \/ Throws

EntryStep ==
    \/ Then \/ Catch \/ Finally
    \/ Text \/ Lines \/ Json \/ ToString \/ ArrayBuffer \/ Blob
    \/ Stdin

\* C2: a new invocation has spawned nothing, no configuration call spawns, and
\* a spawn happens only in a step of an entry point (await, accessor, stdin)
\* taken while the invocation has not started.
C2_LazyStart ==
    /\ (sp.spawns = 0 /\ sp.promiseRef = None /\ child.phase = "none")
    /\ [][/\ SetterStep => (sp'.spawns = sp.spawns /\ sp'.promiseRef = sp.promiseRef)
          /\ sp'.spawns # sp.spawns => (EntryStep /\ sp.promiseRef = None)]_vars

\* every setter has been called and nothing is spawned
C2_Witness ==
    /\ sp.state.cwd # None /\ sp.state.shell # None /\ sp.state.env # None
    /\ sp.state.timeout # None /\ sp.state.quiet /\ sp.state.nothrow
    /\ sp.spawns = 0 /\ child.phase = "none"

\* C3: at most one child is spawned, and every await, accessor call and stdin
\* access holds the one promise (the one child) of the invocation.
C3_OnePromise ==
    /\ sp.spawns <= 1
    /\ \A h \in sp.handles : sp.promiseRef = Some(h[2]) /\ h[2] = 1

\* an await, an accessor and a stdin access were made, and the process has closed
C3_Witness ==
    /\ sp.handles = {<<"await", 1>>, <<"accessor", 1>>, <<"stdin", 1>>}
    /\ sp.spawns = 1
    /\ sp.promise.status = "fulfilled"

\* the first terminating event is this 'close'
FirstClose == ~sp.state.closed /\ Close

\* C4: a first 'close' with code 0 resolves, whatever quiet and nothrow are,
\* with success, exit code 0 and everything written to stdout and stderr so far.
C4_CleanClose ==
    [][(FirstClose /\ child.code = Some(0)) =>
          /\ sp'.promise.status = "fulfilled"
          /\ sp'.promise.value.success = TRUE
          /\ sp'.promise.value.exitCode = 0
          /\ sp'.promise.value.stdout = WroteOut
          /\ sp'.promise.value.stderr = WroteErr]_vars

\* a clean close of a throwing, echoing invocation whose child wrote to both streams
C4_Witness ==
    /\ sp.promise.status = "fulfilled"
    /\ sp.promise.value.exitCode = 0
    /\ sp.promise.value.stdout = <<104, 10>>
    /\ sp.promise.value.stderr = <<255>>
    /\ ~sp.state.nothrow /\ ~sp.state.quiet

\* C5: a first 'close' with a nonzero code N resolves, when nothrow is set, with
\* the accumulated buffers, exit code N and success false, and otherwise
\* rejects, delivering no outcome.
C5_FailingClose ==
    [][(FirstClose /\ child.code # None /\ child.code # Some(0)) =>
          IF sp.state.nothrow
          THEN /\ sp'.promise.status = "fulfilled"
               /\ sp'.promise.value.exitCode = child.code[1]
               /\ sp'.promise.value.success = FALSE
               /\ sp'.promise.value.stdout = WroteOut
               /\ sp'.promise.value.stderr = WroteErr
          ELSE /\ sp'.promise.status = "rejected"
               /\ sp'.promise.value = NoOutput]_vars

\* nothrow and a close with code 127 after output
C5_Witness ==
    /\ sp.promise.status = "fulfilled"
    /\ sp.promise.value.exitCode = 127
    /\ sp.promise.value.success = FALSE
    /\ sp.promise.value.stdout # <<>>

\* C6: a 'close' that rejects does so with the accumulated stderr text when it
\* is not empty, and with 'Command failed with code N' otherwise.
C6_RejectionMessage ==
    [][(FirstClose /\ sp'.promise.status = "rejected") =>
          sp'.promise.reason =
              NewError(IF WroteErr # <<>>
                       THEN BufferToString(WroteErr)
                       ELSE <<"C","o","m","m","a","n","d"," ","f","a","i","l","e","d",
                              " ","w","i","t","h"," ","c","o","d","e"," ">>
                            \o NumberToString(Effective(child.code)))]_vars

\* a rejection carrying the stderr text "h\n"
C6_Witness ==
    /\ sp.promise.status = "rejected"
    /\ sp.final.exitCode = 127
    /\ sp.promise.reason.message = <<"h", "\n">>

\* what onError is expected to leave when it wins with this Error object
ErrorOutcome(error) ==
    /\ sp'.final.exitCode = 1
    /\ sp'.final.success = FALSE
    /\ sp'.final.stdout = WroteOut
    /\ sp'.final.stderr = WroteErr
    /\ IF sp.state.nothrow
       THEN sp'.promise.status = "fulfilled" /\ sp'.promise.value = sp'.final
       ELSE sp'.promise.status = "rejected" /\ sp'.promise.reason = error

\* C7: a first 'error' or 'disconnect' makes an outcome with exit code 1,
\* success false and the bytes received before it; nothrow resolves with it,
\* otherwise the promise rejects with the Error of the event, which for a
\* disconnect is an Error with message 'Disconnected'.
C7_ErrorOrDisconnect ==
    [][/\ \A e \in ErrorObjects : (~sp.state.closed /\ ErrorEvent(e)) => ErrorOutcome(e)
       /\ (~sp.state.closed /\ Disconnect) =>
              ErrorOutcome([name |-> "Error",
                            message |-> <<"D","i","s","c","o","n","n","e","c","t","e","d">>])
      ]_vars

\* a disconnect won after the child had written to stdout, and rejected
C7_Witness ==
    /\ sp.promise.status = "rejected"
    /\ sp.promise.reason.message = Disconnected
    /\ sp.final.exitCode = 1
    /\ sp.final.stdout = <<255>>

\* a first terminating event that is a failure: a close that is not clean, an
\* 'error' (a failed spawn among them), a 'disconnect'
FirstFailure ==
    /\ ~spNothrow.state.closed
    /\ (Close /\ child.code # Some(0)) \/ Error \/ Disconnect

\* C8: with nothrow set before the start and never changed, the promise never
\* rejects, whatever the failure (nonzero exit, failed spawn, disconnect,
\* timeout kill) and the order of the events: the failure fulfils it with an
\* outcome whose success is false, and text() resolves to the captured stdout.
C8_NothrowNeverRejects ==
    /\ [](/\ spNothrow.promise.status # "rejected"
          /\ textResult(spNothrow).status # "rejected"
          /\ spNothrow.state.closed =>
                /\ textResult(spNothrow).status = "fulfilled"
                /\ \E n \in 0..Len(child.wroteOut) :
                      textResult(spNothrow).value =
                          BufferToString(BufferConcat(SubSeq(child.wroteOut, 1, n))))
    /\ [][FirstFailure =>
            /\ spNothrow'.promise.status = "fulfilled"
            /\ spNothrow'.promise.value.success = FALSE
            /\ spNothrow'.promise.value.exitCode # 0
            /\ textResult(spNothrow').value = BufferToString(WroteOut)]_vars

\* the timeout killed a child that had written "h\n", and the promise is fulfilled
C8_Witness ==
    /\ child.timedOut
    /\ spNothrow.promise.status = "fulfilled"
    /\ ~spNothrow.promise.value.success
    /\ textResult(spNothrow) = [status |-> "fulfilled", value |-> <<"h", "\n">>]

\* how the promise of an invocation stands
Settlement(r) == <<r.promise.status, r.promise.value, r.promise.reason, r.final>>

\* what an invocation has written to the parent's stdout and stderr
Echo(r) == <<r.parentStdout, r.parentStderr>>

\* the entry console.error leaves on the parent's stderr
Echoed(err) == [via |-> "console.error", data |-> err]

\* what a winning onError adds to the parent's stderr
ErrorEcho(err) ==
    sp'.parentStderr = IF sp.state.quiet THEN sp.parentStderr
                                         ELSE Append(sp.parentStderr, Echoed(err))

\* C9: the invocation settles exactly as the one that differs from it only in
\* having been quiet from the start, and echoes exactly what the one that
\* differs from it only in nothrow echoes; a winning 'error' is echoed to the
\* parent's stderr if and only if quiet is not set, whatever nothrow is.
C9_QuietAndNothrowIndependent ==
    /\ [](Settlement(sp) = Settlement(spQuiet) /\ Echo(sp) = Echo(spNothrow))
    /\ [][/\ \A e \in ErrorObjects :
                (~sp.state.closed /\ ErrorEvent(e)) => ErrorEcho(ObjectErr(e))
          /\ (~sp.state.closed /\ Disconnect) =>
                ErrorEcho(StringErr(Disconnected))]_vars

\* an echoing invocation that rejected beside a quiet one, echoing the error
\* like the one that resolved
C9_Witness ==
    /\ sp.promise.status = "rejected"
    /\ ~sp.state.quiet /\ ~sp.state.nothrow
    /\ spNothrow.promise.status = "fulfilled"
    /\ sp.parentStdout # <<>>
    /\ sp.parentStderr = <<Echoed(ObjectErr(SpawnENOENT))>>
    /\ Echo(spQuiet) = <<(<<>>), (<<>>)>>

\* C10: the close of a child the timeout killed goes through the close handler
\* like any other: its code is absent, the outcome gets exit code 1 and
\* success false, nothrow resolves with it, and otherwise the promise rejects,
\* with 'Command failed with code 1' when stderr is empty.
C10_TimeoutClose ==
    [][(FirstClose /\ child.timedOut) =>
          /\ child.code = None
          /\ sp'.final.exitCode = 1
          /\ sp'.final.success = FALSE
          /\ sp'.promise.status = IF sp.state.nothrow THEN "fulfilled" ELSE "rejected"
          /\ (~sp.state.nothrow /\ WroteErr = <<>>) =>
                sp'.promise.reason.message =
                    <<"C","o","m","m","a","n","d"," ","f","a","i","l","e","d"," ",
                      "w","i","t","h"," ","c","o","d","e"," ","1">>]_vars

\* a killed child, no stderr, a rejection
C10_Witness ==
    /\ child.timedOut /\ child.phase = "closed"
    /\ sp.promise.status = "rejected"
    /\ sp.final.exitCode = 1
    /\ sp.final.stderr = <<>>
    /\ sp.promise.reason.message = CommandFailed(1)

\* C11: a child that exits with code 0 before the configured timeout elapses
\* gives the outcome of the same run with no timeout configured: fulfilled,
\* success, exit code 0, the same buffers; as long as the timeout has not
\* fired, the invocation settles, captures and echoes as the one on which
\* timeout() was never called.
C11_UnfiredTimeout ==
    /\ [](~child.timedOut =>
            /\ Settlement(sp) = Settlement(spNoTimeout)
            /\ sp.stdout = spNoTimeout.stdout
            /\ sp.stderr = spNoTimeout.stderr
            /\ Echo(sp) = Echo(spNoTimeout))
    /\ [][(FirstClose /\ child.code = Some(0) /\ sp.state.timeout # None) =>
            /\ sp'.promise.status = "fulfilled"
            /\ sp'.final.success = TRUE
            /\ sp'.final.exitCode = 0
            /\ sp'.final.stdout = WroteOut
            /\ sp'.final.stderr = WroteErr
            /\ sp'.final = spNoTimeout'.final]_vars

\* a timer armed for 1 ms, a child that wrote and exited with 0 first
C11_Witness ==
    /\ sp.state.timeout = Some(1)
    /\ spNoTimeout.state.timeout = None
    /\ ~child.timedOut /\ child.phase = "closed" /\ child.code = Some(0)
    /\ sp.promise.status = "fulfilled"
    /\ sp.final.success = TRUE
    /\ sp.final.stdout = <<104, 10>>
    /\ sp.final = spNoTimeout.final

\* C12: the invocation that was quiet from before the start writes nothing to
\* the parent's stdout or stderr, no chunk and no error, while its captured
\* chunks, its outcome and the decoded views of it are those of the invocation
\* that got the same events without that quiet().
C12_QuietWritesNothing ==
    /\ spQuiet.state.quiet
    /\ spQuiet.parentStdout = <<>>
    /\ spQuiet.parentStderr = <<>>
    /\ spQuiet.stdout = sp.stdout
    /\ spQuiet.stderr = sp.stderr
    /\ spQuiet.final = sp.final
    /\ textResult(spQuiet) = textResult(sp)
    /\ sp.final # NoOutput =>
          /\ BufferToString(spQuiet.final.stdout) = BufferToString(sp.final.stdout)
          /\ BufferToString(spQuiet.final.stderr) = BufferToString(sp.final.stderr)

\* beside an invocation that forwarded a chunk and echoed an error, the quiet
\* one wrote nothing and has the same text
C12_Witness ==
    /\ ~sp.state.quiet /\ sp.state.nothrow
    /\ sp.parentStdout = << <<104, 10>> >>
    /\ Len(sp.parentStderr) = 1
    /\ sp.parentStderr[1].via = "console.error"
    /\ sp.parentStderr[1].data = ObjectErr(KillEPERM)
    /\ Echo(spQuiet) = <<(<<>>), (<<>>)>>
    /\ textResult(spQuiet) = [status |-> "fulfilled", value |-> <<"h", "\n">>]

\* the chunks process.stderr.write received, in order
Forwarded(log) ==
    LET written == SelectSeq(log, LAMBDA e : e.via = "write")
    IN  [i \in 1..Len(written) |-> written[i].data]

\* C13: as long as quiet was not set, the chunks forwarded to the parent's
\* stdout are the chunks accumulated for the child's stdout, and likewise for
\* stderr, in every state: a chunk is forwarded in the step that appends it.
C13_ForwardedIsAccumulated ==
    ~sp.state.quiet =>
        /\ sp.parentStdout = sp.stdout
        /\ Forwarded(sp.parentStderr) = sp.stderr
        /\ BufferConcat(sp.parentStdout) = WroteOut
        /\ BufferConcat(Forwarded(sp.parentStderr)) = WroteErr

\* one chunk on each stream, each forwarded to its own parent stream
C13_Witness ==
    /\ ~sp.state.quiet
    /\ sp.stdout = << <<255>> >> /\ sp.parentStdout = << <<255>> >>
    /\ sp.stderr = << <<104, 10>> >> /\ Forwarded(sp.parentStderr) = << <<104, 10>> >>

\* the first terminating event handled
Winning == ~sp.state.closed /\ (Close \/ Error \/ Disconnect)

\* C14: the outcome the winning event finalizes holds, for stdout, the
\* concatenation in arrival order of the stdout chunks delivered before it, and
\* likewise for stderr: nothing reordered, duplicated or moved between the two,
\* whatever the interleaving of the data events.
C14_ArrivalOrder ==
    /\ [](sp.stdout = child.wroteOut /\ sp.stderr = child.wroteErr)
    /\ [][Winning =>
            /\ sp'.final.stdout = WroteOut
            /\ sp'.final.stderr = WroteErr
            /\ sp'.state.closed]_vars

\* two different stdout chunks, finalized in the order they arrived
C14_Witness ==
    /\ child.wroteOut = << <<255>>, <<104, 10>> >>
    /\ sp.state.closed
    /\ sp.final.stdout = <<255, 104, 10>>
    /\ sp.final.stderr = <<>>

\* C15: .stdin on an invocation that has not started starts the process as an
\* await would and hands out the stdin of the child it spawned, while that
\* child runs and the promise is pending; an await made afterwards spawns
\* nothing, holds the promise of that child, and the promise settles with the
\* code that child closed with.
C15_StdinStarts ==
    /\ [](/\ \A h \in sp.handles : h[1] = "stdin" => sp.promiseRef = Some(h[2])
          /\ (sp.promise.status # "pending" /\ sp.promise.calls > 0) =>
                sp.final.exitCode = Effective(child.code))
    /\ [][/\ (sp.promiseRef = None /\ Stdin) =>
                /\ sp'.spawns = 1
                /\ [sp' EXCEPT !.handles = sp.handles] = promise(sp)
                /\ child' = spawn(sp.state, sp'.env[1])
                /\ child'.phase = "running"
                /\ sp'.promise.status = "pending"
                /\ sp'.handles = sp.handles \cup {<<"stdin", 1>>}
          /\ (<<"stdin", 1>> \in sp.handles /\ Then) =>
                /\ sp'.spawns = sp.spawns
                /\ sp'.promiseRef = sp.promiseRef
                /\ sp'.promise = sp.promise
                /\ sp'.handles = sp.handles \cup {<<"await", 1>>}
                /\ child' = child]_vars

\* stdin was the only entry point used: the child runs, nothing is settled
C15_Witness ==
    /\ sp.handles = {<<"stdin", 1>>}
    /\ sp.spawns = 1
    /\ child.phase = "running"
    /\ sp.promise.status = "pending"

\* C16: with a child that copies its input to its output, the invocation
\* never rejects, and the outcome it resolves with has, as stdout, the payloads
\* written to the stdin handle before end(), concatenated in the order of the
\* writes, and the empty buffer when nothing was written.
C16_PassThrough ==
    /\ sp.promise.status # "rejected"
    /\ child.phase = "closed" => sp.promise.status = "fulfilled"
    /\ sp.promise.status = "fulfilled" =>
          /\ child.stdinEnded
          /\ sp.promise.value.stdout = BufferConcat(child.written)
          /\ BufferToString(sp.promise.value.stdout) =
                BufferToString(BufferConcat(child.written))
          /\ sp.promise.value.success = TRUE
          /\ child.written = <<>> => textResult(sp).value = <<>>

\* two different payloads, delivered in more chunks than writes, then awaited
C16_Witness ==
    /\ child.written = << <<104, 10>>, <<255>> >>
    /\ Len(child.wroteOut) = 3
    /\ <<"await", 1>> \in sp.handles
    /\ sp.promise.status = "fulfilled"
    /\ sp.promise.value.stdout = <<104, 10, 255>>

\* a step of the child or of its streams
PipeStep == CatCopy \/ PipeData \/ CatExit \/ PipeClose

\* C17: writes to stdin and 'data' events interleave in any order; with a
\* pass-through child, once the caller has ended stdin a step of the child or
\* of its streams is possible as long as the invocation has not completed,
\* and the invocation eventually completes, the payloads exceeding the
\* capacity of the pipe included.
C17_NoDeadlock ==
    /\ []((child.stdinEnded /\ sp.promise.status = "pending") => ENABLED PipeStep)
    /\ [](child.stdoutPipe # <<>> => ENABLED PipeData)
    /\ (child.stdinEnded ~> sp.promise.status = "fulfilled")

\* a chunk delivered while written bytes were still waiting, and completion
C17_Witness ==
    /\ Len(BufferConcat(child.written)) > PipeCapacity
    /\ Len(child.wroteOut) > Len(child.written)
    /\ child.stdinEnded
    /\ sp.promise.status = "fulfilled"

\* the overlay the invocation is configured with
Overlay == IF sp.state.env = None THEN EmptyObject ELSE sp.state.env[1]

Starts == sp.promiseRef = None /\ EntryStep

\* C18: the environment the child is spawned with has every key of the
\* overlay with the overlay's value, every other inherited key with its
\* inherited value, and no other key; process.env is never changed, so an
\* invocation created afterwards, without an overlay, spawns with the
\* inherited environment.
C18_ChildEnv ==
    /\ [](/\ \A k \in Runs : run[k].processEnv = InheritedEnv
          /\ envOf([FromCommand EXCEPT !.processEnv = sp.processEnv]) = InheritedEnv)
    /\ [][Starts =>
            /\ DOMAIN child'.env = DOMAIN InheritedEnv \cup DOMAIN Overlay
            /\ \A k \in DOMAIN Overlay : child'.env[k] = Overlay[k]
            /\ \A k \in DOMAIN InheritedEnv \ DOMAIN Overlay :
                   child'.env[k] = InheritedEnv[k]
            /\ sp'.processEnv = sp.processEnv]_vars

\* a child spawned with an overlay that redefines an inherited name
C18_Witness ==
    /\ child.phase = "running"
    /\ sp.state.env = Some([hello |-> "world"])
    /\ DOMAIN child.env = {"PATH", "hello"}
    /\ child.env["hello"] = "world"
    /\ child.env["PATH"] = "/usr/bin"
    /\ sp.processEnv["hello"] = "there"

\* how many writes an invocation has made to the parent's stdout and stderr
Written(r) == <<Len(r.parentStdout), Len(r.parentStderr)>>

\* what the handlers of an invocation would do with the next event: what they
\* would write to the parent's streams, and how they would settle
Reaction(r) ==
    [data   |-> [d \in Chunks |->
                   <<Written(onStdoutData(r, d)), Written(onStderrData(r, d))>>],
     close  |-> [c \in ExitCodes |-> onClose(r, Some(c)).promise.status],
     killed |-> onClose(r, None).promise.status,
     error  |-> [e \in ErrorObjects |->
                   <<Written(onError(r, ObjectErr(e))),
                     onError(r, ObjectErr(e)).promise.status>>],
     disconnect |-> <<Written(onDisconnect(r)), onDisconnect(r).promise.status>>]

\* C19: a setter called once the process has started changes nothing of how
\* the invocation forwards output, echoes errors or settles.
C19_FrozenAfterStart ==
    [][(Started /\ SetterStep) => Reaction(sp') = Reaction(sp)]_vars

\* the field a setter assigns
Assigns(field, values) ==
    /\ sp'.state[field] \in values
    /\ \A f \in DOMAIN sp.state \ {field} : sp'.state[f] = sp.state[f]
    /\ [sp' EXCEPT !.state = sp.state] = sp
    /\ child' = child

\* C20: each configuration method gives back the invocation it was called on
\* with its own field assigned from the argument; the other fields of the
\* configuration, the closed flag, the promise (started or not) and
\* everything else are as they were.
C20_SetterFrame ==
    [][/\ Cwd => Assigns("cwd", {Some(v) : v \in CwdArgs})
       /\ Timeout => Assigns("timeout", {Some(v) : v \in TimeoutArgs})
       /\ Quiet => Assigns("quiet", {TRUE})
       /\ Nothrow => Assigns("nothrow", {TRUE})
       /\ Throws => Assigns("nothrow", BOOLEAN)
       /\ Env => Assigns("env", {Some(v) : v \in EnvArgs})
       /\ Shell => Assigns("shell", {Some(v) : v \in ShellArgs})]_vars

\* every setter called, some before and some after the start, nothing closed
C20_Witness ==
    /\ sp.state.cwd = Some("src") /\ sp.state.shell = Some("/bin/bash")
    /\ sp.state.env = Some([GREETING |-> "Hello"]) /\ sp.state.timeout = Some(0)
    /\ sp.state.quiet /\ sp.state.nothrow
    /\ ~sp.state.closed
    /\ sp.spawns = 1 /\ child.phase = "running"
    /\ child.env = InheritedEnv

\* C21: json() never throws: on a fulfilled invocation, json() on the outcome
\* returns (an absent value when stdout is not a parseable document), json()
\* on the invocation does not reject, and a json() call leaves the outcome and
\* what text() resolves to as they were.
C21_JsonNeverThrows ==
    /\ [](sp.promise.status = "fulfilled" =>
            /\ ~ShellOutput_json(sp.promise.value).threw
            /\ jsonResult(sp).status = "fulfilled")
    /\ [][Json => (sp'.final = sp.final /\ sp'.promise = sp.promise
                     /\ textResult(sp') = textResult(sp))]_vars

\* the segments of a text between newlines, without the empty segment that
\* follows a final newline
LinesOf(str) ==
    LET segments == Split(str, "\n")
    IN  IF str # <<>> /\ str[Len(str)] = "\n"
        THEN SubSeq(segments, 1, Len(segments) - 1)
        ELSE segments

\* C22: lines() over the finalized stdout yields the segments of stdout
\* between newlines, in order, without the empty segment after a final
\* newline: 'a\nb\n' gives 'a' then 'b', and so does 'a\nb'.
C22_LinesDropTrailingEmpty ==
    sp.promise.status = "fulfilled" =>
        /\ linesResult(sp).yielded = LinesOf(ShellOutput_text(sp.promise.value))
        /\ sp.promise.value.stdout \in {<<97, 10, 98, 10>>, <<97, 10, 98>>} =>
              linesResult(sp).yielded = << <<"a">>, <<"b">> >>

\* the lines of the stdout received so far that a newline has terminated
CompleteLines(r) ==
    LET segments == Split(BufferToString(BufferConcat(r.stdout)), "\n")
    IN  SubSeq(segments, 1, Len(segments) - 1)

IsPrefix(short, long) ==
    Len(short) <= Len(long) /\ SubSeq(long, 1, Len(short)) = short

\* C23: lines() does not wait for the command to finish: while the child has
\* not closed, the lines whose newline has been received are already
\* yielded to the consumer.
C23_LinesAreLive ==
    (Started /\ ~sp.state.closed) => IsPrefix(CompleteLines(sp), linesResult(sp).yielded)

\* the outcome has been finalized
Finalized == sp.final # NoOutput

\* C24: once finalized, the outcome never changes, whatever data, close and
\* error events follow and whichever accessors are called: the promise keeps
\* its state and its outcome, text(), json() and lines() keep giving what they
\* gave, and an accessor call changes nothing but the caller's hold on the
\* promise.
C24_FrozenOutcome ==
    [][/\ Finalized =>
            /\ sp'.final = sp.final
            /\ sp'.promise.status = sp.promise.status
            /\ sp'.promise.value = sp.promise.value
            /\ sp'.promise.reason = sp.promise.reason
            /\ sp.promise.status = "fulfilled" => sp'.promise.value = sp'.final
            /\ textResult(sp') = textResult(sp)
            /\ jsonResult(sp') = jsonResult(sp)
            /\ linesResult(sp') = linesResult(sp)
       /\ (Started /\ (Text \/ Json \/ Lines)) =>
            /\ [sp' EXCEPT !.handles = sp.handles] = sp
            /\ child' = child]_vars

\* an outcome finalized with one chunk, read through an accessor, and a
\* second chunk received afterwards
C24_Witness ==
    /\ sp.promise.status = "fulfilled"
    /\ <<"accessor", 1>> \in sp.handles
    /\ sp.final.stdout = <<97, 10>>
    /\ sp.stdout = << <<97, 10>>, <<98>> >>
    /\ textResult(sp).value = <<"a", "\n">>

\* a 'close', 'error' or 'disconnect' event has been handled
Delivered == child.phase = "closed" \/ child.errors > 0 \/ child.disconnected

\* C25: a started invocation whose child delivers its events eventually
\* settles, and with it every await, accessor and stdin access, which all
\* hold its one promise; the promise is pending exactly as long as no
\* 'close', 'error' or 'disconnect' has been handled, and is settled by one
\* call of resolve or reject.
C25_EventuallySettles ==
    /\ [](Started =>
            /\ (sp.promise.status = "pending") <=> ~Delivered
            /\ sp.promise.calls = IF Delivered THEN 1 ELSE 0
            /\ \A h \in sp.handles : sp.promiseRef = Some(h[2]))
    /\ (Started ~> sp.promise.status # "pending")

\* callers of three kinds, resumed by the rejection a 'disconnect' caused
C25_Witness ==
    /\ sp.handles = {<<"await", 1>>, <<"accessor", 1>>, <<"stdin", 1>>}
    /\ child.disconnected /\ child.phase = "running" /\ child.errors = 0
    /\ sp.promise.status = "rejected"
    /\ sp.promise.reason.message = Disconnected

Other(k) == IF k = "first" THEN "second" ELSE "first"

\* a call on invocation k or an event of its child
StepOf(k) ==
    AwaitOf(k) \/ QuietOf(k) \/ NothrowOf(k) \/ DataOf(k) \/ ExitOf(k) \/ CloseOf(k)

\* the invocation as it is after the step
ViewAfter(k) == [run'.inv[k] EXCEPT !.state = run'.heap[run'.ref[k]]]

\* C26: of two invocations running concurrently, a call on one or an event of
\* its child leaves the other's configuration, closed flag, accumulated
\* chunks, promise and outcome as they were; each is closed by its own
\* child's close only, and settles with that child's code and output.
C26_NoSharedState ==
    /\ [](\A k \in Invocations :
            /\ run.ref[k] # run.ref[Other(k)]
            /\ View(k).state.closed <=> child[k].phase = "closed"
            /\ View(k).promise.status # "pending" =>
                  /\ child[k].phase = "closed"
                  /\ View(k).final.exitCode = Effective(child[k].code)
                  /\ View(k).final.stdout = BufferConcat(child[k].wroteOut)
                  /\ child[k].code = Some(0) => View(k).promise.status = "fulfilled"
                  /\ View(k).promise.status = "fulfilled" =>
                        View(k).promise.value = View(k).final)
    /\ [][\A k \in Invocations :
            StepOf(Other(k)) => (ViewAfter(k) = View(k) /\ child'[k] = child[k])]_vars

\* a quiet invocation that rejected beside an echoing one that is still running
C26_Witness ==
    /\ View("first").state.quiet /\ View("first").state.closed
    /\ View("first").promise.status = "rejected"
    /\ View("first").final.stdout = <<104, 10>>
    /\ ~View("second").state.quiet /\ ~View("second").state.closed
    /\ View("second").promise.status = "pending"
    /\ View("second").parentStdout = << <<255>> >>
    /\ child["second"].phase = "running"

\* the invocation was started, and only ever consumed, through text(),
\* lines(), json(), arrayBuffer() or blob()
OnlyAccessors == sp.handles # {} /\ \A h \in sp.handles : h[1] = "accessor"

\* C27: the terminal accessors enable quiet: an invocation consumed through
\* them alone forwards no stdout or stderr chunk to the parent's streams.
C27_AccessorsQuiet ==
    OnlyAccessors =>
        /\ sp.state.quiet
        /\ sp.parentStdout = <<>>
        /\ Forwarded(sp.parentStderr) = <<>>

\* C28: the stdin handle is given out only while the process is alive: .stdin
\* on an invocation whose process has closed throws, giving no handle, and
\* .stdin on an outcome without an input stream throws 'stdin is not
\* available'.
C28_StdinOnlyWhileAlive ==
    /\ [](/\ ShellOutput_stdin(ShellOutput(<<>>, <<>>, 0, None, TRUE)).threw
          /\ ShellOutput_stdin(ShellOutput(<<>>, <<>>, 0, None, TRUE)).value.message
                = StdinNotAvailable)
    /\ [][(child.phase = "closed" /\ <<"stdin", 1>> \notin sp.handles /\ Stdin) =>
            <<"stdin", 1>> \notin sp'.handles]_vars


\* the times the job queue ran the callback of reaction i of an invocation
RanOf(r, i) == Cardinality({n \in 1..Len(r.ran) : r.ran[n].reaction = i})

Registered(r, i, method) == i <= Len(r.reactions) /\ r.reactions[i].method = method

\* C29: then, catch and finally follow the one promise of the invocation.  No
\* callback runs before the promise is settled and none runs twice; the
\* callback of catch runs only for a rejected promise and is passed the
\* reason, an Error; the fulfilment callback of then runs only for a
\* fulfilled promise; and, the job queue draining, the callback of finally
\* runs once the promise is settled either way and the callback of catch
\* once it is rejected.
C29_ThenableSurface ==
    /\ [](\A k \in Runs : \A n \in 1..Len(run[k].ran) :
            LET r == run[k]
                e == r.ran[n]
            IN  /\ r.promise.status # "pending"
                /\ RanOf(r, e.reaction) = 1
                /\ e.method = "finally" => e.callback = "onfinally" /\ e.arg = None
                /\ e.method = "catch" =>
                       /\ r.promise.status = "rejected"
                       /\ e.callback = "onrejected"
                       /\ e.arg = Some(r.promise.reason)
                       /\ r.promise.reason.name = "Error"
                /\ (e.method = "then" /\ e.callback = "onfulfilled") =>
                       /\ r.promise.status = "fulfilled"
                       /\ e.arg = Some(r.promise.value))
    /\ \A k \in Runs : \A i \in 1..MaxReactions :
          /\ (Registered(run[k], i, "finally") /\ run[k].promise.status # "pending")
                ~> (RanOf(run[k], i) = 1)
          /\ (Registered(run[k], i, "catch") /\ run[k].promise.status = "rejected")
                ~> (RanOf(run[k], i) = 1)

\* a failed command with catch then finally: both callbacks ran, catch first,
\* while the nothrow twin ran the one of finally alone
C29_Witness ==
    /\ sp.promise.status = "rejected"
    /\ Len(sp.ran) = 2
    /\ sp.ran[1].method = "catch" /\ sp.ran[2].method = "finally"
    /\ Len(spNothrow.ran) = 1
    /\ spNothrow.ran[1].method = "finally"


\* C30: a failed forward aborts nothing and loses nothing.  Whatever the
\* writes to the parent's stdout did, the parent process runs on, every chunk
\* the child wrote is in the accumulator, and once the child has closed the
\* invocation is settled with an outcome whose stdout is those chunks.
C30_ForwardFailureHarmless ==
    \A k \in Runs :
        /\ run[k].parent = "running"
        /\ child.phase # "closed" => BufferConcat(run[k].stdout) = BufferConcat(child.wroteOut)
        /\ child.phase = "closed" =>
               /\ run[k].promise.status # "pending"
               /\ run[k].final.stdout = BufferConcat(child.wroteOut)


\* C31: every outcome has an integer exit code and is a success exactly when
\* that code is 0, and the value of a fulfilled promise is that outcome; the
\* first close with no code gives exit code 1, and so does the first 'error'
\* or 'disconnect', whose outcome is a failure.
C31_SuccessIffZero ==
    /\ [](\A k \in Runs :
            run[k].final # NoOutput =>
                /\ run[k].final.exitCode \in Int
                /\ run[k].final.success = (run[k].final.exitCode = 0)
                /\ run[k].promise.status = "fulfilled" =>
                       run[k].promise.value = run[k].final)
    /\ [][(FirstClose /\ child.code = None) =>
            \A k \in Runs : run[k]'.final.exitCode = 1]_vars
    /\ [][(~sp.state.closed /\ (Error \/ Disconnect)) =>
            \A k \in Runs : run[k]'.final.exitCode = 1 /\ ~run[k]'.final.success]_vars

\* a nothrow invocation fulfilled by an 'error' with a failed outcome of code
\* 1, the child closing with code 0 afterwards
C31_Witness ==
    /\ spNothrow.promise.status = "fulfilled"
    /\ spNothrow.promise.value.exitCode = 1
    /\ ~spNothrow.promise.value.success
    /\ child.errors = 1 /\ ~child.disconnected
    /\ child.phase = "closed" /\ child.code = Some(0)
    /\ sp.promise.reason = KillEPERM


\* C32: the closed flag is set exactly when the promise is settled.  It is
\* false on an invocation that has not started, it is true if and only if
\* the promise is fulfilled or rejected, a step sets it exactly when it
\* settles the promise, and once set it stays set.
C32_ClosedIffSettled ==
    /\ [](\A k \in Runs :
            /\ run[k].spawns = 0 => ~run[k].state.closed
            /\ run[k].state.closed <=> run[k].promise.status # "pending")
    /\ [][\A k \in Runs :
            /\ run[k].state.closed => run[k]'.state.closed
            /\ (~run[k].state.closed /\ run[k]'.state.closed) <=>
                   (run[k].promise.status = "pending" /\
                    run[k]'.promise.status # "pending")]_vars

\* a disconnect closed the running invocation, which nothing else has ended
C32_Witness ==
    /\ sp.state.closed
    /\ sp.promise.status = "rejected"
    /\ child.disconnected /\ child.errors = 0 /\ child.phase = "running"
    /\ spNothrow.state.closed /\ spNothrow.promise.status = "fulfilled"


\* the lines of a text: its segments between newlines, the last one left out
\* when it is empty
WholeLines(str) ==
    LET segments == Split(str, "\n")
    IN  IF segments[Len(segments)] = <<>>
        THEN SubSeq(segments, 1, Len(segments) - 1)
        ELSE segments

\* C33: the streaming line view does not depend on the chunking.  While the
\* stream is open the lines yielded are the segments of the bytes delivered
\* that a newline has ended, the fragment after the last newline being held
\* back; once the stream has ended they are the segments of the whole output,
\* its last fragment being a line if and only if it is not empty.
C33_ChunkingIndependent ==
    LET seen == Split(BufferToString(SubSeq(child.stdout, 1, child.delivered)), "\n")
    IN  /\ ~child.ended => run.yielded = SubSeq(seen, 1, Len(seen) - 1)
        /\ child.ended => run.yielded = WholeLines(BufferToString(child.stdout))


\* the bytes the child has written to a stream: those delivered, then those
\* the pipe still holds
AllOut == WroteOut \o child.stdoutPipe
AllErr == WroteErr \o child.stderrPipe

\* C34: a first 'close' that comes when every chunk of stdout and stderr has
\* been delivered finalizes an outcome holding every byte the child wrote to
\* each stream, however the bytes were cut into chunks; and whichever event
\* wins, its outcome holds all the chunks delivered before it.
C34_CloseHoldsEverything ==
    /\ [][(FirstClose /\ child.stdoutPipe = <<>> /\ child.stderrPipe = <<>>) =>
            \A k \in Runs : /\ run[k]'.final.stdout = AllOut
                            /\ run[k]'.final.stderr = AllErr]_vars
    /\ [][(~sp.state.closed /\ sp'.state.closed) =>
            \A k \in Runs : /\ run[k]'.final.stdout = WroteOut
                            /\ run[k]'.final.stderr = WroteErr]_vars

\* a chunk written to each stream, the one of stdout delivered in two
\* pieces, and a close whose outcome holds both whole
C34_Witness ==
    /\ child.phase = "closed" /\ child.errors = 0
    /\ child.wroteOut = << <<104>>, <<10>> >>
    /\ child.wroteErr = << <<255>> >>
    /\ sp.final.stdout = <<104, 10>>
    /\ sp.final.stderr = <<255>>


\* C35: a chunk delivered once the outcome is finalized leaves the outcome
\* and the promise as they are, yet the handler runs as before: the chunk is
\* pushed, and it is written to the parent's stream of the same name unless
\* quiet is set, in which case nothing is written.
C35_LateChunk ==
    /\ [][(sp.state.closed /\ StdoutData) =>
            \A k \in Runs :
                LET data == child'.wroteOut[Len(child'.wroteOut)]
                IN  /\ run[k]'.final = run[k].final
                    /\ run[k]'.promise = run[k].promise
                    /\ run[k]'.stdout = Append(run[k].stdout, data)
                    /\ run[k]'.parentStderr = run[k].parentStderr
                    /\ run[k]'.parentStdout =
                          IF run[k].state.quiet THEN run[k].parentStdout
                          ELSE Append(run[k].parentStdout, data)]_vars
    /\ [][(sp.state.closed /\ StderrData) =>
            \A k \in Runs :
                LET data == child'.wroteErr[Len(child'.wroteErr)]
                IN  /\ run[k]'.final = run[k].final
                    /\ run[k]'.promise = run[k].promise
                    /\ run[k]'.stderr = Append(run[k].stderr, data)
                    /\ run[k]'.parentStdout = run[k].parentStdout
                    /\ run[k]'.parentStderr =
                          IF run[k].state.quiet THEN run[k].parentStderr
                          ELSE Append(run[k].parentStderr,
                                      [via |-> "write", data |-> data])]_vars

\* an 'error' won with nothing captured, and a stdout chunk came after it:
\* absent from the outcome, forwarded by the loud invocation only
C35_Witness ==
    /\ sp.promise.status = "rejected"
    /\ child.errors = 1 /\ child.phase = "running"
    /\ sp.final.stdout = <<>>
    /\ sp.stdout = << <<104, 10>> >>
    /\ sp.parentStdout = << <<104, 10>> >>
    /\ spQuiet.stdout = << <<104, 10>> >>
    /\ spQuiet.parentStdout = <<>>


\* how an invocation would settle on each way its child can end
Settles(r) ==
    [close  |-> [c \in ExitCodes |-> onClose(r, Some(c)).promise.status],
     killed |-> onClose(r, None).promise.status,
     error  |-> [e \in ErrorObjects |-> onError(r, ObjectErr(e)).promise.status]]

\* the calls of nothrow() and throws(b), in any state
NothrowAlgebra ==
    /\ \A b \in BOOLEAN : throws(sp, b).state.nothrow = ~b
    /\ throws(sp, FALSE) = nothrow(sp)
    /\ throws(nothrow(sp), TRUE).state.nothrow = FromCommand.state.nothrow
    /\ Settles(throws(nothrow(sp), TRUE)) = Settles([sp EXCEPT !.state.nothrow = FALSE])
    /\ nothrow(nothrow(sp)) = nothrow(sp)
    /\ quiet(quiet(sp)) = quiet(sp)

\* C36: throws(b) sets nothrow to not b, throws(false) does what nothrow()
\* does, throws(true) after nothrow() gives back the default, nothrow() and
\* quiet() done twice are as done once; and the setting by which the
\* invocation settles is the one of the last nothrow() or throws() call made
\* before the start, a call made after the start leaving it as it is.
C36_LastNothrowWins ==
    /\ [](NothrowAlgebra)
    /\ [][(~Started /\ Throws) => \E b \in BOOLEAN : Settles(sp') = Settles(throws(sp, b))]_vars
    /\ [][(~Started /\ Nothrow) => Settles(sp') = Settles(nothrow(sp))]_vars
    /\ [][(Started /\ (Nothrow \/ Throws)) => Settles(sp') = Settles(sp)]_vars


\* the arguments of the env() calls made before the start
CallsBefore == SubSeq(run.calls, 1, run.before[1])

LastOverlay == IF CallsBefore = <<>> THEN EmptyObject ELSE CallsBefore[Len(CallsBefore)]

\* C37: the env() calls made before the start do not add up.  The child gets
\* the inherited environment with the argument of the last of them spread
\* over it: every key of that argument with its value, and a key that only
\* an earlier call gave if and only if it is inherited, with the inherited
\* value; the calls made after the start change nothing of it.
C37_LastEnvWins ==
    run.before # None =>
        /\ child.env = ObjectSpread(InheritedEnv, LastOverlay)
        /\ \A key \in DOMAIN LastOverlay : child.env[key] = LastOverlay[key]
        /\ \A i \in 1..Len(CallsBefore) :
              \A key \in DOMAIN CallsBefore[i] \ DOMAIN LastOverlay :
                  /\ key \in DOMAIN child.env <=> key \in DOMAIN InheritedEnv
                  /\ key \in DOMAIN child.env => child.env[key] = InheritedEnv[key]

\* env({PATH, GREETING}), then env({hello}), then the start: the child has
\* the inherited PATH, the hello of the last call and no GREETING
C37_Witness ==
    /\ run.before = Some(2)
    /\ run.calls = <<[PATH |-> "/opt/bin", GREETING |-> "Hi"], [hello |-> "world"]>>
    /\ child.phase = "running"
    /\ child.env = [PATH |-> "/usr/bin", hello |-> "world"]


\* C38: in the older variant, a close of stderr that comes first, with an
\* empty stderr and a child that exited with code 0, fulfils the promise,
\* the result being a success; and the close of stdout that comes once the
\* invocation is closed changes nothing.
C38_StderrCloseFirst ==
    /\ [][(/\ OlderCloseErr
           /\ run.parent = "running"
           /\ ~run.state.closed
           /\ run.result.stderr = <<>>
           /\ child.exitCode = Some(0)) =>
            /\ run'.promise.status = "fulfilled"
            /\ run'.promise.calls = 1
            /\ run'.result.success
            /\ run'.state.closed]_vars
    /\ [][(OlderCloseOut /\ run.state.closed) => run' = run]_vars

\* output on stdout only, exit with code 0, stderr closed and then stdout
C38_Witness ==
    /\ child.exitCode = Some(0)
    /\ ~child.stderrOpen /\ ~child.stdoutOpen
    /\ child.errors = 0
    /\ run.result = [success |-> TRUE, stdout |-> <<"h", "\n">>, stderr |-> <<>>]
    /\ run.promise.status = "fulfilled"
    /\ run.promise.calls = 1
    /\ ~run.state.nothrow


\* the value at position i of the template, the empty text when it is missing
ValueAt(i) ==
    IF i <= Len(run.keys) /\ run.keys[i] # None THEN run.keys[i][1] ELSE <<>>

\* where fragment i begins in the command: after the fragments and the
\* values of the positions before it
RECURSIVE OffsetOf(_)
OffsetOf(i) ==
    IF i = 1 THEN 0
    ELSE OffsetOf(i - 1) + Len(run.strings[i - 1]) + Len(ValueAt(i - 1))

\* C39: the command of the invocation is fragment 0, value 0, fragment 1,
\* value 1 and so on up to the last fragment, each at its place and nothing
\* besides, a missing value taking no place; and the command given to spawn
\* is that command.
C39_PositionalCommand ==
    /\ run.promise # None =>
          LET command == run.promise[1].command
              last == Len(run.strings)
          IN  /\ Len(command) = OffsetOf(last) + Len(run.strings[last]) + Len(ValueAt(last))
              /\ ValueAt(last) = <<>>
              /\ \A i \in 1..last :
                    /\ SubSeq(command, OffsetOf(i) + 1,
                              OffsetOf(i) + Len(run.strings[i])) = run.strings[i]
                    /\ SubSeq(command, OffsetOf(i) + Len(run.strings[i]) + 1,
                              OffsetOf(i) + Len(run.strings[i]) + Len(ValueAt(i))) = ValueAt(i)
    /\ child.command # None =>
          /\ run.promise # None
          /\ child.command[1] = run.promise[1].command

\* `ls ${undefined}${"; "}` started: the missing value takes no place
C39_Witness ==
    /\ run.strings = << <<"l", "s">>, <<" ">>, <<>> >>
    /\ run.keys = <<None, Some(<<";", " ">>)>>
    /\ child.command = Some(<<"l", "s", " ", ";", " ">>)
    /\ child.process.phase = "running"

====
